---- MODULE Spec2Model ----
(***************************************************************************)
(* A model of the data side of the visualisation tool: header             *)
(* normalisation, date parsing, numeric coercion, coordinate resolution    *)
(* and the preprocessing pipeline (preprocessing/analysis_pipeline.py),    *)
(* the column classifier (preprocessing/column_classifier.py), the filter  *)
(* functions (services/transforms.py, utils/helpers.py), the histogram,    *)
(* bar and scatter builders (services/figures.py), the GeoJSON loader      *)
(* (utils/jsonloaders.py) and the upload, preselection, active-column and  *)
(* filter callbacks with their stores (callbacks/).                        *)
(*                                                                         *)
(* Text is modelled as a sequence of one-character strings, so that        *)
(* cleaning, lower-casing, substring tests and parsing are computed on     *)
(* the characters.  A null cell (None / NaN / NaT / pd.NA) is Null.        *)
(* A column is a record [name, dtype, vals]; a table is a sequence of      *)
(* columns whose vals have one length.                                     *)
(***************************************************************************)
EXTENDS Integers, Sequences, FiniteSets, TLC

VARIABLES
    pc,          \* position of the function under study
    cols,        \* _norm_cols: the input header list
    normalized,  \* _norm_cols: the returned list
    renormalized,\* _norm_cols applied to its own result
    col,         \* _coerce_numbers_from_str: the input column
    coerced,     \* _coerce_numbers_from_str: the returned column
    series,      \* _parse_dates: the input column
    parsed,      \* _parse_dates: the returned column
    df,          \* preprocess_dataframe: the input table
    staged,      \* preprocess_dataframe: the table after step 5 (coordinates)
    cleaned,     \* preprocess_dataframe: [raised, df], the table it returns
    table,       \* categorize_columns: the input table
    cats,        \* categorize_columns: the returned category map
    boolLike,    \* is_boolean_like: the returned flag
    request,     \* the arguments of the filter or chart function called
    filtered,    \* [raised, df]: what the filter function returned
    fig,         \* the figure a chart builder returned
    DATA,        \* dcc.Store IDS.DATA: [null, df], the cleaned table
    META,        \* dcc.Store IDS.META: [null, cats], the category map
    KEEP_COLS,   \* dropdown IDS.KEEP_COLS: [options, value]
    ACTIVE_COLS, \* dcc.Store IDS.ACTIVE_COLS: the active column list
    FILTERED_DATA, \* dcc.Store IDS.FILTERED_DATA: [null, df]
    pending,     \* the callbacks Dash has triggered and not yet run
    fc,          \* _geojson_to_dataframe: the features of the collection
    loaded       \* _geojson_to_dataframe: [raised, rows], the rows it returns

vars == <<pc, cols, normalized, renormalized, col, coerced, series, parsed,
          df, staged, cleaned, table, cats, boolLike, request, filtered, fig,
          DATA, META, KEEP_COLS, ACTIVE_COLS, FILTERED_DATA, pending, fc, loaded>>

\* the variables of the filter and chart functions
\* the stores and components of the Dash application
storeVars == <<DATA, META, KEEP_COLS, ACTIVE_COLS, FILTERED_DATA, pending>>

\* the variables of the application and of its GeoJSON loader
appVars == <<storeVars, fc, loaded>>

viewVars == <<boolLike, request, filtered, fig, appVars>>

Idle == "idle"

storesIdle ==
    /\ DATA = Idle /\ META = Idle /\ KEEP_COLS = Idle
    /\ ACTIVE_COLS = Idle /\ FILTERED_DATA = Idle /\ pending = Idle

appIdle == storesIdle /\ fc = Idle /\ loaded = Idle

viewIdle ==
    /\ boolLike = Idle /\ request = Idle /\ filtered = Idle /\ fig = Idle
    /\ appIdle

\* Cells.  Every cell is a record [t, v]: t is the kind of value, v its payload.
\* A number is held in units of 1/Scale, so that rounding to DECIMALS places
\* is a real operation on it.
Null == [t |-> "null", v |-> 0]
Num(n) == [t |-> "num", v |-> n]
Str(s) == [t |-> "str", v |-> s]
Date(y, m, d) == [t |-> "date", v |-> <<y, m, d>>]
Bool(b) == [t |-> "bool", v |-> b]

isna(c) == c.t = "null"

DECIMALS == 3
EMPTY_TOKENS ==
    { <<>>, <<" ">>, <<"-">>, <<"N","A">>, <<"N","/","A">>, <<"n","a","n">>, <<"N","a","N">> }
LAT_NAMES == { <<"l","a","t">>, <<"l","a","t","i","t","u","d","e">> }
LON_NAMES == { <<"l","o","n">>, <<"l","o","n","g">>, <<"l","n","g">>,
               <<"l","o","n","g","i","t","u","d","e">> }
DATE_KEYWORDS ==
    { <<"d","a","t","e">>, <<"p","v","m">>, <<"p","ä","i","v","ä">>,
      <<"t","i","m","e","s","t","a","m","p">>, <<"d","a","t","e","t","i","m","e">> }
Scale == 10 ^ (DECIMALS + 1)

----------------------------------------------------------------------------
(* Bounds of the model *)

MaxCols == 3

----------------------------------------------------------------------------
(* Characters *)

LowerLetters == <<"a","b","c","d","e","f","g","h","i","j","k","l","m",
                  "n","o","p","q","r","s","t","u","v","w","x","y","z","ä","ö">>
UpperLetters == <<"A","B","C","D","E","F","G","H","I","J","K","L","M",
                  "N","O","P","Q","R","S","T","U","V","W","X","Y","Z","Ä","Ö">>
Digits == <<"0","1","2","3","4","5","6","7","8","9">>

Range(f) == { f[i] : i \in DOMAIN f }

AlnumChars == Range(LowerLetters) \cup Range(UpperLetters) \cup Range(Digits)
DigitChars == Range(Digits)

isalnum(ch) == ch \in AlnumChars

LowerOf ==
    [ch \in Range(UpperLetters) |->
        LowerLetters[CHOOSE i \in DOMAIN UpperLetters : UpperLetters[i] = ch]]

lowerChar(ch) == IF ch \in DOMAIN LowerOf THEN LowerOf[ch] ELSE ch

lower(s) == [i \in DOMAIN s |-> lowerChar(s[i])]

RECURSIVE lstrip(_, _)
lstrip(s, chars) ==
    IF s # <<>> /\ Head(s) \in chars THEN lstrip(Tail(s), chars) ELSE s

RECURSIVE rstrip(_, _)
rstrip(s, chars) ==
    IF s # <<>> /\ s[Len(s)] \in chars
    THEN rstrip(SubSeq(s, 1, Len(s) - 1), chars)
    ELSE s

strip(s, chars) == rstrip(lstrip(s, chars), chars)

\* needle in haystack (Python's substring test on str)
contains(haystack, needle) ==
    \E i \in 0..(Len(haystack) - Len(needle)) :
        \A k \in DOMAIN needle : haystack[i + k] = needle[k]

RECURSIVE str(_)
str(n) ==
    IF n < 10 THEN <<Digits[n + 1]>>
    ELSE str(n \div 10) \o <<Digits[(n % 10) + 1]>>

----------------------------------------------------------------------------
(* _norm_cols *)

RECURSIVE cleanLoop(_, _, _)
cleanLoop(rest, cleaned_chars, prev_was_underscore) ==
    IF rest = <<>> THEN cleaned_chars
    ELSE LET ch == Head(rest) IN
         IF isalnum(ch) \/ ch = "_"
         THEN cleanLoop(Tail(rest), Append(cleaned_chars, ch), ch = "_")
         ELSE IF ~prev_was_underscore
              THEN cleanLoop(Tail(rest), Append(cleaned_chars, "_"), TRUE)
              ELSE cleanLoop(Tail(rest), cleaned_chars, prev_was_underscore)

clean(name) ==
    LET cleaned_name == strip(cleanLoop(strip(name, {" "}), <<>>, FALSE), {"_"})
    IN  IF cleaned_name = <<>> THEN <<"c","o","l">> ELSE cleaned_name

suffixed(base_name, suffix) == base_name \o <<"_","_">> \o str(suffix)

RECURSIVE firstFreeSuffix(_, _, _)
firstFreeSuffix(base_name, seen, suffix) ==
    IF suffixed(base_name, suffix) \in seen
    THEN firstFreeSuffix(base_name, seen, suffix + 1)
    ELSE suffix

\* a dedup that never looks for a free suffix: every duplicate gets __1
uniqueNameAlwaysOne(base_name, seen) ==
    IF base_name \in seen THEN suffixed(base_name, 1) ELSE base_name

\* a dedup whose suffix is joined by a character that clean() rewrites
uniqueNameDash(base_name, seen) ==
    IF base_name \in seen
    THEN base_name \o <<"-">> \o str(firstFreeSuffix(base_name, seen, 1))
    ELSE base_name

\* a dedup whose suffixes start at 0 instead of 1
uniqueNameFromZero(base_name, seen) ==
    IF base_name \in seen
    THEN suffixed(base_name, firstFreeSuffix(base_name, seen, 0))
    ELSE base_name

uniqueName(base_name, seen) ==
    IF base_name \in seen
    THEN suffixed(base_name, firstFreeSuffix(base_name, seen, 1))
    ELSE base_name

RECURSIVE normLoop(_, _, _)
normLoop(rest, seen, acc) ==
    IF rest = <<>> THEN acc
    ELSE LET base_name == uniqueName(clean(Head(rest)), seen)
         IN  normLoop(Tail(rest), seen \cup {base_name}, Append(acc, base_name))

norm_cols(names) == normLoop(names, {}, <<>>)

----------------------------------------------------------------------------
(* Header normalisation on its own: SpecNorm *)

RawNames ==
    { <<"a">>, <<"a","!">>, <<" ","a"," ">>, <<"A">>,
      <<"a","_","_","1">>, <<"a","_","_","2">>,
      <<"a","_","_","1","_","_","1">>,
      <<"!">>, <<"c","o","l">>, <<"_","a","!","!","b","_">>,
      <<"M","y"," ","D","a","t","e","!","!">> }

SeqsUpTo(S, n) == UNION { [1..k -> S] : k \in 0..n }

InitNorm ==
    /\ pc = "start"
    /\ cols \in SeqsUpTo(RawNames, MaxCols)
    /\ normalized = Idle
    /\ renormalized = Idle
    /\ col = Idle /\ coerced = Idle
    /\ series = Idle /\ parsed = Idle
    /\ df = Idle /\ staged = Idle /\ cleaned = Idle
    /\ table = Idle /\ cats = Idle
    /\ viewIdle

NormCols ==
    /\ pc = "start"
    /\ normalized' = norm_cols(cols)
    /\ pc' = "normalized"
    /\ UNCHANGED <<cols, renormalized, col, coerced, series, parsed,
                   df, staged, cleaned, table, cats, viewVars>>

Renormalize ==
    /\ pc = "normalized"
    /\ renormalized' = norm_cols(normalized)
    /\ pc' = "renormalized"
    /\ UNCHANGED <<cols, normalized, col, coerced, series, parsed,
                   df, staged, cleaned, table, cats, viewVars>>

NextNorm == NormCols \/ Renormalize

SpecNorm == InitNorm /\ [][NextNorm]_vars

----------------------------------------------------------------------------
(* Properties of header normalisation *)

Distinct(s) == \A i, j \in DOMAIN s : i # j => s[i] # s[j]

\* the cleaned base name of every input name
bases == [i \in DOMAIN cols |-> clean(cols[i])]

\* the number of names before position i that clean to the same base as cols[i]
earlierSameBase(b, i) == Cardinality({ j \in 1..(i - 1) : b[j] = b[i] })

\* C5: _norm_cols returns a sequence of the same length as its input whose
\* names are pairwise distinct.
C5_SameLengthUnique ==
    pc # "start" => Len(normalized) = Len(cols) /\ Distinct(normalized)

\* C5 witness: a header list with two names of one base, followed by a name
\* that already is the suffixed form base__1, has been normalised.
C5_Witness ==
    /\ pc = "normalized"
    /\ \E i, j, k \in DOMAIN cols :
          /\ i < j /\ j < k
          /\ bases[i] = bases[j]
          /\ bases[k] = suffixed(bases[i], 1)

\* C6: _norm_cols is idempotent (normalising its own result changes nothing),
\* and an input whose names are already clean and distinct is returned as is.
C6_Idempotent ==
    /\ pc = "renormalized" => renormalized = normalized
    /\ (pc # "start" /\ Distinct(cols) /\ \A i \in DOMAIN cols : clean(cols[i]) = cols[i])
          => normalized = cols

\* C6 witness: a list that the first pass had to change (a cleaned name and a
\* suffixed duplicate) has been normalised a second time.
C6_Witness ==
    /\ pc = "renormalized"
    /\ \E i, j \in DOMAIN cols :
          /\ i < j
          /\ cols[i] # clean(cols[i])
          /\ normalized[j] = suffixed(clean(cols[j]), 1)

\* C7 as stated: the first name of a base keeps the bare base and the k-th
\* later name of the same base becomes base__k.
C7_KthDuplicateGetsK ==
    pc # "start" =>
        LET b == bases IN
        \A i \in DOMAIN cols :
            normalized[i] =
                IF earlierSameBase(b, i) = 0 THEN b[i]
                ELSE suffixed(b[i], earlierSameBase(b, i))

\* no name of the list cleans to a suffixed form base__k of another name's base
noSuffixCollision(b) ==
    LET forms == { suffixed(b[i], k) : i \in DOMAIN b, k \in 1..Len(b) }
    IN  \A j \in DOMAIN b : b[j] \notin forms

\* C7 amended: a name keeps its cleaned base when no earlier column was given
\* that name, and otherwise becomes base__k for the least k >= 1 such that
\* base__k was given to no earlier column; when no name of the list cleans to
\* a suffixed form of another name's base, this is the bare base for the first
\* occurrence and base__k for the k-th later one ("My Date!!" twice gives
\* My_Date, My_Date__1).
C7_LeastFreeSuffix ==
    pc # "start" =>
        LET b == bases IN
        /\ \A i \in DOMAIN cols :
              LET before == { normalized[j] : j \in 1..(i - 1) }
              IN  IF b[i] \notin before THEN normalized[i] = b[i]
                  ELSE \E k \in 1..Len(cols) :
                          /\ normalized[i] = suffixed(b[i], k)
                          /\ normalized[i] \notin before
                          /\ \A m \in 1..(k - 1) : suffixed(b[i], m) \in before
        /\ noSuffixCollision(b) =>
              \A i \in DOMAIN cols :
                  normalized[i] =
                      IF earlierSameBase(b, i) = 0 THEN b[i]
                      ELSE suffixed(b[i], earlierSameBase(b, i))
        /\ cols = << <<"M","y"," ","D","a","t","e","!","!">>,
                     <<"M","y"," ","D","a","t","e","!","!">> >>
              => normalized = << <<"M","y","_","D","a","t","e">>,
                                 <<"M","y","_","D","a","t","e","_","_","1">> >>

\* C7 witness: the header "My Date!!" given twice has been normalised.
C7_Witness ==
    /\ pc = "normalized"
    /\ cols = << <<"M","y"," ","D","a","t","e","!","!">>,
                 <<"M","y"," ","D","a","t","e","!","!">> >>

----------------------------------------------------------------------------
(* pd.to_numeric on text, and _coerce_numbers_from_str *)

isDigits(s) == s # <<>> /\ \A i \in DOMAIN s : s[i] \in DigitChars

DigitValue == [ch \in DigitChars |-> CHOOSE n \in 0..9 : Digits[n + 1] = ch]

digitVal(ch) == DigitValue[ch]

RECURSIVE digitsVal(_)
digitsVal(s) ==
    IF s = <<>> THEN 0
    ELSE 10 * digitsVal(SubSeq(s, 1, Len(s) - 1)) + digitVal(s[Len(s)])

\* the fraction digits .f1f2... in units of 1/Scale (digits beyond the
\* resolution of the model are cut)
fracVal(s) ==
    LET kept == SubSeq(s, 1, IF Len(s) < DECIMALS + 1 THEN Len(s) ELSE DECIMALS + 1)
    IN  digitsVal(kept) * 10 ^ (DECIMALS + 1 - Len(kept))

\* The parse of one string by pd.to_numeric: [ok, v].  ok = FALSE is the
\* ValueError "Unable to parse string"; "nan" in any case parses to NaN.
\* Plain decimal literals [sign]digits[.digits] are the numbers of the model.
parseNumber(s) ==
    LET t == strip(s, {" "})
        signed == t # <<>> /\ Head(t) \in {"-", "+"}
        body == IF signed THEN Tail(t) ELSE t
        sign == IF signed /\ Head(t) = "-" THEN -1 ELSE 1
        dots == { i \in DOMAIN body : body[i] = "." }
    IN  IF lower(t) = <<"n","a","n">> THEN [ok |-> TRUE, v |-> Null]
        ELSE IF dots = {}
        THEN IF isDigits(body)
             THEN [ok |-> TRUE, v |-> Num(sign * digitsVal(body) * Scale)]
             ELSE [ok |-> FALSE, v |-> Null]
        ELSE IF Cardinality(dots) = 1
        THEN LET p == CHOOSE i \in dots : TRUE
                 ip == SubSeq(body, 1, p - 1)
                 fp == SubSeq(body, p + 1, Len(body))
             IN  IF /\ (ip = <<>> \/ isDigits(ip))
                    /\ (fp = <<>> \/ isDigits(fp))
                    /\ ~(ip = <<>> /\ fp = <<>>)
                 THEN [ok |-> TRUE,
                       v |-> Num(sign * (digitsVal(ip) * Scale + fracVal(fp)))]
                 ELSE [ok |-> FALSE, v |-> Null]
        ELSE [ok |-> FALSE, v |-> Null]

\* str.replace(",", ".", regex=False)
commaToDot(s) == [i \in DOMAIN s |-> IF s[i] = "," THEN "." ELSE s[i]]

\* pd.to_numeric(..., errors="coerce") of one cell
to_numeric_coerce(c) ==
    IF c.t = "num" THEN c
    ELSE IF c.t = "str" THEN parseNumber(c.v).v
    ELSE Null

RECURSIVE dropna(_)
dropna(vals) ==
    IF vals = <<>> THEN <<>>
    ELSE IF isna(Head(vals)) THEN dropna(Tail(vals))
    ELSE <<Head(vals)>> \o dropna(Tail(vals))

head(vals, n) == SubSeq(vals, 1, IF Len(vals) < n THEN Len(vals) ELSE n)

\* an object column counts as string only when every value is a str
is_string_dtype(c) ==
    \/ c.dtype = "string"
    \/ c.dtype = "object" /\ \A i \in DOMAIN c.vals : c.vals[i].t = "str"
is_numeric_dtype(c) == c.dtype \in {"float64", "int64", "bool"}
is_datetime64_any_dtype(c) == c.dtype = "datetime64"

SAMPLE_SIZE == 200
THR_TENTHS == 8

\* the whole column converted with errors="coerce" and the comma normalised
convertColumn(c) ==
    [c EXCEPT !.dtype = "float64",
              !.vals = [i \in DOMAIN c.vals |->
                           IF c.vals[i].t = "str"
                           THEN parseNumber(commaToDot(c.vals[i].v)).v
                           ELSE Null]]

coerce_numbers_from_str(c) ==
    IF ~is_string_dtype(c) THEN c
    ELSE LET sample == head(dropna(c.vals), SAMPLE_SIZE)
             sample_norm == [i \in DOMAIN sample |-> commaToDot(sample[i].v)]
             probe == [i \in DOMAIN sample |-> parseNumber(sample_norm[i])]
             \* pd.to_numeric(sample_norm) without errors="coerce" raises on
             \* the first string it cannot parse
             probeRaises == \E i \in DOMAIN probe : ~probe[i].ok
             notna == Cardinality({ i \in DOMAIN probe : ~isna(probe[i].v) })
         IN  IF sample = <<>> THEN c
             ELSE IF probeRaises THEN c
             ELSE IF 10 * notna >= THR_TENTHS * Len(sample) THEN convertColumn(c)
             ELSE c

----------------------------------------------------------------------------
(* Numeric coercion on its own: SpecCoerce *)

MaxLen == 5

TextCells ==
    { Null, Str(<<"1">>), Str(<<"1",",","5">>), Str(<<"n","a","n">>), Str(<<"x">>) }

FloatCells == { Null, Num(15000) }

InitCoerce ==
    /\ pc = "start"
    /\ col \in { [dtype |-> "string", vals |-> v] : v \in SeqsUpTo(TextCells, MaxLen) }
          \cup { [dtype |-> "float64", vals |-> v] : v \in SeqsUpTo(FloatCells, MaxLen) }
    /\ coerced = Idle
    /\ cols = Idle /\ normalized = Idle /\ renormalized = Idle
    /\ series = Idle /\ parsed = Idle
    /\ df = Idle /\ staged = Idle /\ cleaned = Idle
    /\ table = Idle /\ cats = Idle
    /\ viewIdle

CoerceNumbers ==
    /\ pc = "start"
    /\ coerced' = coerce_numbers_from_str(col)
    /\ pc' = "coerced"
    /\ UNCHANGED <<cols, normalized, renormalized, col, series, parsed,
                   df, staged, cleaned, table, cats, viewVars>>

NextCoerce == CoerceNumbers

SpecCoerce == InitCoerce /\ [][NextCoerce]_vars

\* the sampled values of the input column and how many of them parse as numbers
sampledCells == head(dropna(col.vals), SAMPLE_SIZE)
sampledParsing ==
    Cardinality({ i \in DOMAIN sampledCells :
                    LET r == parseNumber(commaToDot(sampledCells[i].v))
                    IN  r.ok /\ ~isna(r.v) })

\* C8 as stated: a text column is converted to numeric whenever at least 0.8
\* of its sampled values parse as numbers (values that do not parse becoming
\* null), and is left as text when fewer than 0.8 of them parse.
C8_ConvertsAtThreshold ==
    (pc = "coerced" /\ col.dtype = "string" /\ sampledCells # <<>>) =>
        IF 10 * sampledParsing >= THR_TENTHS * Len(sampledCells)
        THEN /\ coerced.dtype = "float64"
             /\ \A i \in DOMAIN col.vals :
                   coerced.vals[i] = to_numeric_coerce(
                       IF col.vals[i].t = "str"
                       THEN Str(commaToDot(col.vals[i].v)) ELSE col.vals[i])
        ELSE coerced = col

----------------------------------------------------------------------------
(* pd.to_datetime on text, and _parse_dates *)

\* the explicit formats of common_formats: the separator and the field order
FMT_ISO == [sep |-> "-", order |-> "YMD"]
FMT_DOT == [sep |-> ".", order |-> "DMY"]
FMT_SLASH == [sep |-> "/", order |-> "DMY"]
common_formats == <<FMT_ISO, FMT_DOT, FMT_SLASH>>

isLeap(y) == (y % 4 = 0 /\ y % 100 # 0) \/ y % 400 = 0

daysIn(y, m) ==
    IF m = 2 THEN (IF isLeap(y) THEN 29 ELSE 28)
    ELSE IF m \in {4, 6, 9, 11} THEN 30 ELSE 31

\* strptime of one string under one format: [ok, v].  %Y is four digits, %d
\* and %m one or two; the day must exist in the month.
strptime(s, fmt) ==
    LET seps == { i \in DOMAIN s : s[i] = fmt.sep }
        bad == [ok |-> FALSE, v |-> Null]
    IN  IF Cardinality(seps) # 2 THEN bad
        ELSE LET p == CHOOSE i \in seps : \A j \in seps : i <= j
                 q == CHOOSE i \in seps : \A j \in seps : j <= i
                 f1 == SubSeq(s, 1, p - 1)
                 f2 == SubSeq(s, p + 1, q - 1)
                 f3 == SubSeq(s, q + 1, Len(s))
                 yf == IF fmt.order = "YMD" THEN f1 ELSE f3
                 df_ == IF fmt.order = "YMD" THEN f3 ELSE f1
             IN  IF /\ isDigits(yf) /\ isDigits(f2) /\ isDigits(df_)
                    /\ Len(yf) = 4 /\ Len(f2) <= 2 /\ Len(df_) <= 2
                 THEN LET y == digitsVal(yf)
                          m == digitsVal(f2)
                          d == digitsVal(df_)
                      IN  IF m \in 1..12 /\ d >= 1 /\ d <= daysIn(y, m)
                          THEN [ok |-> TRUE, v |-> Date(y, m, d)]
                          ELSE bad
                 ELSE bad

\* pd.to_datetime(series, format=fmt, errors="coerce", utc=True) on a column
\* of text and nulls: with errors="coerce" a value that does not match the
\* format becomes NaT, and the call does not raise.
to_datetime_format(vals, fmt) ==
    [raised |-> FALSE,
     vals |-> [i \in DOMAIN vals |->
                 IF vals[i].t = "date" THEN vals[i]
                 ELSE IF vals[i].t = "str" THEN strptime(vals[i].v, fmt).v
                 ELSE Null]]

\* pd.to_datetime(series, errors="coerce", dayfirst=True, utc=True): the
\* permissive parser reads each value on its own; on the date strings of the
\* model it accepts year-first ISO dates and day-first dates with any of the
\* three separators.
to_datetime_dayfirst(vals) ==
    LET flexible(s) ==
            IF strptime(s, FMT_ISO).ok THEN strptime(s, FMT_ISO).v
            ELSE IF strptime(s, FMT_DOT).ok THEN strptime(s, FMT_DOT).v
            ELSE IF strptime(s, FMT_SLASH).ok THEN strptime(s, FMT_SLASH).v
            ELSE strptime(s, [sep |-> "-", order |-> "DMY"]).v
    IN  [i \in DOMAIN vals |->
            IF vals[i].t = "date" THEN vals[i]
            ELSE IF vals[i].t = "str" THEN flexible(vals[i].v)
            ELSE Null]

RECURSIVE tryFormats(_, _)
tryFormats(vals, fmts) ==
    IF fmts = <<>> THEN to_datetime_dayfirst(vals)
    ELSE LET r == to_datetime_format(vals, Head(fmts))
         IN  IF r.raised THEN tryFormats(vals, Tail(fmts)) ELSE r.vals

parse_dates(vals) == tryFormats(vals, common_formats)

is_likely_date(colname) ==
    LET name == lower(colname)
    IN  \E key \in DATE_KEYWORDS : contains(name, key)

----------------------------------------------------------------------------
(* Date parsing on its own: SpecDates *)

DateCells ==
    { Null,
      Str(<<"2","0","2","0","-","0","1","-","3","1">>),
      Str(<<"3","1",".","0","1",".","2","0","2","0">>),
      Str(<<"3","1","/","0","1","/","2","0","2","0">>),
      Str(<<"3","0",".","0","2",".","2","0","2","1">>) }

InitDates ==
    /\ pc = "start"
    /\ series \in SeqsUpTo(DateCells, MaxLen)
    /\ parsed = Idle
    /\ cols = Idle /\ normalized = Idle /\ renormalized = Idle
    /\ col = Idle /\ coerced = Idle
    /\ df = Idle /\ staged = Idle /\ cleaned = Idle
    /\ table = Idle /\ cats = Idle
    /\ viewIdle

ParseDates ==
    /\ pc = "start"
    /\ parsed' = parse_dates(series)
    /\ pc' = "parsed"
    /\ UNCHANGED <<cols, normalized, renormalized, col, coerced, series,
                   df, staged, cleaned, table, cats, viewVars>>

NextDates == ParseDates

SpecDates == InitDates /\ [][NextDates]_vars

\* a format applies to the whole column when every non-null value matches it
appliesToColumn(vals, fmt) ==
    \A i \in DOMAIN vals : vals[i].t = "str" => strptime(vals[i].v, fmt).ok

\* C9 as stated: the first of the explicit formats that applies to the whole
\* column is used, and the permissive day-first parser only when none does;
\* so a column of DD.MM.YYYY (or of DD/MM/YYYY) strings is parsed to those
\* dates.
C9_FirstApplicableFormat ==
    pc = "parsed" =>
        LET applicable == { k \in DOMAIN common_formats :
                              appliesToColumn(series, common_formats[k]) }
        IN  IF applicable = {} THEN parsed = to_datetime_dayfirst(series)
            ELSE LET k == CHOOSE k \in applicable : \A j \in applicable : k <= j
                 IN  parsed = to_datetime_format(series, common_formats[k]).vals

----------------------------------------------------------------------------
(* Tables *)

columnNames(t) == [i \in DOMAIN t |-> t[i].name]

hasColumn(t, name) == \E i \in DOMAIN t : t[i].name = name

\* df[name]: the first column of that name
column(t, name) == t[CHOOSE i \in DOMAIN t : t[i].name = name /\ \A j \in 1..(i - 1) : t[j].name # name]

nrows(t) == IF t = <<>> THEN 0 ELSE Len(t[1].vals)

RECURSIVE selectSeq(_, _)
selectSeq(sq, keep) ==
    IF sq = <<>> THEN <<>>
    ELSE (IF 1 \in keep THEN <<Head(sq)>> ELSE <<>>)
         \o selectSeq(Tail(sq), { i - 1 : i \in keep \ {1} })

latitudeName == <<"l","a","t","i","t","u","d","e">>
longitudeName == <<"l","o","n","g","i","t","u","d","e">>

----------------------------------------------------------------------------
(* Coordinate detection and conversion *)

None == <<>>

\* Python: a list compared with a str is never equal, so
\* `lower_cols in LAT_NAMES` (a list of names looked up among names) is False
listEqualsStr(lst, name) == FALSE

listInNames(lst, names) == \E name \in names : listEqualsStr(lst, name)

\* a _find_lat_lon that tests each column's own lowercased name
find_lat_lon_perColumn(t) ==
    LET lats == { i \in DOMAIN t : lower(t[i].name) \in LAT_NAMES }
        lons == { i \in DOMAIN t : lower(t[i].name) \in LON_NAMES }
        first(S) == CHOOSE i \in S : \A j \in S : i <= j
    IN  [lat |-> IF lats = {} THEN None ELSE t[first(lats)].name,
         lon |-> IF lons = {} THEN None ELSE t[first(lons)].name]

find_lat_lon(t) ==
    LET lower_cols == [i \in DOMAIN t |-> lower(t[i].name)]
        lats == { i \in DOMAIN t : listInNames(lower_cols, LAT_NAMES) }
        lons == { i \in DOMAIN t : listInNames(lower_cols, LON_NAMES) }
        first(S) == CHOOSE i \in S : \A j \in S : i <= j
    IN  [lat |-> IF lats = {} THEN None ELSE t[first(lats)].name,
         lon |-> IF lons = {} THEN None ELSE t[first(lons)].name]

KX_TOKENS == { <<"k","k","j","x">>, <<"k","k","j","_","x">>,
               <<"k","k","j","x","_","c","o","o","r","d","i","n","a","t","e">> }
KY_TOKENS == { <<"k","k","j","y">>, <<"k","k","j","_","y">>,
               <<"k","k","j","y","_","c","o","o","r","d","i","n","a","t","e">> }

\* col_map = {lower(c): c}: the keys in order of first insertion, each key
\* holding the last column name that lowercases to it
find_one(t, candidates) ==
    LET keyAt(i) == lower(t[i].name)
        firstOfKey(i) == \A j \in 1..(i - 1) : keyAt(j) # keyAt(i)
        hits == { i \in DOMAIN t :
                    firstOfKey(i) /\ \E token \in candidates : contains(keyAt(i), token) }
    IN  IF hits = {} THEN None
        ELSE LET i == CHOOSE i \in hits : \A j \in hits : i <= j
                 last == CHOOSE j \in DOMAIN t :
                            /\ keyAt(j) = keyAt(i)
                            /\ \A k \in DOMAIN t : keyAt(k) = keyAt(i) => k <= j
             IN  t[last].name

has_kkj_xy(t) == [kx |-> find_one(t, KX_TOKENS), ky |-> find_one(t, KY_TOKENS)]

\* Series.between(lo, hi) on one cell, lo and hi in whole units
between(c, lo, hi) == c.t = "num" /\ lo * Scale <= c.v /\ c.v <= hi * Scale

where_between(vals, lo, hi) ==
    [i \in DOMAIN vals |-> IF between(vals[i], lo, hi) THEN vals[i] ELSE Null]

\* The EPSG:2393 -> EPSG:4326 transform of pyproj, on the grid points of the
\* model: easting 33.85 with northing 66.72 or 70.00, in units of 100 km so
\* that they fit the integers of the checker (degrees approximate).  A point
\* it cannot project, a NaN included, comes back as (inf, inf).
Inf == [t |-> "inf", v |-> 0]
transform(x, y) ==
    IF x = Num(338500) /\ y = Num(667200)
    THEN [lon |-> Num(249412), lat |-> Num(601603)]
    ELSE IF x = Num(338500) /\ y = Num(700000)
    THEN [lon |-> Num(247206), lat |-> Num(631021)]
    ELSE [lon |-> Inf, lat |-> Inf]

\* transformOk = FALSE: Transformer.from_crs or tf.transform raises
kkj_to_wgs84(easting, northing, transformOk) ==
    IF transformOk
    THEN LET x == [i \in DOMAIN easting |-> to_numeric_coerce(easting[i])]
             y == [i \in DOMAIN northing |-> to_numeric_coerce(northing[i])]
             out == [i \in DOMAIN x |-> transform(x[i], y[i])]
         IN  [lat |-> where_between([i \in DOMAIN out |-> out[i].lat], -90, 90),
              lon |-> where_between([i \in DOMAIN out |-> out[i].lon], -180, 180)]
    ELSE [lat |-> [i \in DOMAIN easting |-> Null],
          lon |-> [i \in DOMAIN easting |-> Null]]

\* step 5, first branch: the named columns, range-checked, added under the
\* names latitude / longitude when no column has that name yet
named_cols(t, lat_name, lon_name) ==
    LET lat == where_between(
                   [i \in 1..nrows(t) |-> to_numeric_coerce(column(t, lat_name).vals[i])],
                   -90, 90)
        lon == where_between(
                   [i \in 1..nrows(t) |-> to_numeric_coerce(column(t, lon_name).vals[i])],
                   -180, 180)
    IN  (IF ~hasColumn(t, latitudeName)
         THEN <<[name |-> latitudeName, dtype |-> "float64", vals |-> lat]>>
         ELSE <<>>)
        \o (IF ~hasColumn(t, longitudeName)
            THEN <<[name |-> longitudeName, dtype |-> "float64", vals |-> lon]>>
            ELSE <<>>)

\* step 5, second branch: the reprojected KKJ pair, added unconditionally
kkj_cols(t, transformOk) ==
    LET k == has_kkj_xy(t) IN
    IF k.kx # None /\ k.ky # None
    THEN LET r == kkj_to_wgs84(column(t, k.kx).vals, column(t, k.ky).vals, transformOk)
         IN  << [name |-> latitudeName, dtype |-> "float64", vals |-> r.lat],
                [name |-> longitudeName, dtype |-> "float64", vals |-> r.lon] >>
    ELSE <<>>

\* step 5 of preprocess_dataframe: new_cols, in insertion order
new_cols(t, transformOk) ==
    LET found == find_lat_lon(t) IN
    IF found.lat # None /\ found.lon # None
    THEN named_cols(t, found.lat, found.lon)
    ELSE kkj_cols(t, transformOk)

----------------
(* preprocess_dataframe *)

\* step 1
normalizeHeaders(t) ==
    LET names == norm_cols(columnNames(t))
    IN  [i \in DOMAIN t |-> [t[i] EXCEPT !.name = names[i]]]

\* step 2
parseDateColumns(t) ==
    [i \in DOMAIN t |->
        IF is_likely_date(t[i].name)
        THEN [t[i] EXCEPT !.dtype = "datetime64", !.vals = parse_dates(t[i].vals)]
        ELSE t[i]]

\* step 3
objectsToString(t) ==
    [i \in DOMAIN t |->
        IF t[i].dtype = "object" /\ ~is_datetime64_any_dtype(t[i])
        THEN [t[i] EXCEPT !.dtype = "string"]
        ELSE t[i]]

\* step 4
coerceColumns(t) ==
    [i \in DOMAIN t |->
        LET c == coerce_numbers_from_str([dtype |-> t[i].dtype, vals |-> t[i].vals])
        IN  [t[i] EXCEPT !.dtype = c.dtype, !.vals = c.vals]]

\* step 5: pd.concat([df, pd.DataFrame(new_cols)], axis=1) appends the new
\* columns whatever the names already in df
addCoordinates(t, transformOk) == t \o new_cols(t, transformOk)

\* numpy's round to DECIMALS places (half to even) of a number in 1/Scale
roundNum(n) ==
    LET q == n \div 10
        r == n % 10
    IN  IF r < 5 THEN q * 10
        ELSE IF r > 5 THEN (q + 1) * 10
        ELSE IF q % 2 = 0 THEN q * 10 ELSE (q + 1) * 10

\* step 6
roundFloats(t) ==
    [i \in DOMAIN t |->
        IF t[i].dtype = "float64"
        THEN [t[i] EXCEPT !.vals = [r \in DOMAIN t[i].vals |->
                                      IF t[i].vals[r].t = "num"
                                      THEN Num(roundNum(t[i].vals[r].v))
                                      ELSE t[i].vals[r]]]
        ELSE t[i]]

empty_tokens == { strip(tok, {" "}) : tok \in EMPTY_TOKENS }

normalize_value(val) ==
    IF val.t = "str" /\ strip(val.v, {" "}) \in empty_tokens THEN Null ELSE val

\* step 7a
normalize_empty_strings(t) ==
    [i \in DOMAIN t |->
        IF t[i].dtype \in {"object", "string"}
        THEN [t[i] EXCEPT !.vals = [r \in DOMAIN t[i].vals |-> normalize_value(t[i].vals[r])]]
        ELSE t[i]]

\* df.dropna(axis=0, how="all")
dropEmptyRows(t) ==
    LET keep == { r \in 1..nrows(t) : \E i \in DOMAIN t : ~isna(t[i].vals[r]) }
    IN  [i \in DOMAIN t |-> [t[i] EXCEPT !.vals = selectSeq(t[i].vals, keep)]]

\* a clean-up that keeps every column
dropNoColumns(t) == t

\* df.dropna(axis=1, how="all")
dropEmptyColumns(t) ==
    selectSeq(t, { i \in DOMAIN t : \E r \in DOMAIN t[i].vals : ~isna(t[i].vals[r]) })

\* the table after steps 1-4
typed(t) == coerceColumns(objectsToString(parseDateColumns(normalizeHeaders(t))))

\* the table after steps 1-5
stageCoordinates(t, transformOk) == addCoordinates(typed(t), transformOk)

\* Steps 6-8 on the staged table.  When step 5 has left two columns of one
\* name, the label-based assignment df[float_cols] = ... of step 6 either
\* raises ValueError (pandas checks the key length against the duplicated
\* labels) or goes through column by column, depending on the pandas in use:
\* dupAssignOk chooses.
finish(stagedTable, dupAssignOk) ==
    IF ~dupAssignOk /\ \E i, j \in DOMAIN stagedTable :
                          i # j /\ stagedTable[i].name = stagedTable[j].name
    THEN [raised |-> TRUE, df |-> <<>>]
    ELSE [raised |-> FALSE,
          df |-> dropEmptyColumns(dropEmptyRows(
                     normalize_empty_strings(roundFloats(stagedTable))))]

preprocess_dataframe(t, transformOk, dupAssignOk) ==
    finish(stageCoordinates(t, transformOk), dupAssignOk)

----------------------------------------------------------------------------
(* Preprocessing on its own: SpecPre *)

NRows == 2

\* the raw headers of the model and, for each, the dtype the reader gives the
\* column and the cells it may hold
PreColumns ==
    { [name |-> <<"l","a","t","i","t","u","d","e">>, dtype |-> "float64",
       pool |-> { Null, Num(615000), Num(950000) }],
      [name |-> <<"l","o","n","g","i","t","u","d","e">>, dtype |-> "float64",
       pool |-> { Null, Num(250000) }],
      [name |-> <<"L","a","t">>, dtype |-> "float64",
       pool |-> { Num(615000), Num(950000) }],
      [name |-> <<"l","o","n">>, dtype |-> "object",
       pool |-> { Str(<<"2","5",",","1","2","3","4">>), Str(<<"2","0","0">>) }],
      [name |-> <<"K","K","J","x">>, dtype |-> "float64",
       pool |-> { Null, Num(338500) }],
      [name |-> <<"k","k","j","y">>, dtype |-> "object",
       pool |-> { Str(<<"6","6",".","7","2">>), Str(<<"x">>) }],
      [name |-> <<"D","a","t","e">>, dtype |-> "object",
       pool |-> { Str(<<"2","0","2","0","-","0","1","-","3","1">>),
                  Str(<<"3","1",".","0","1",".","2","0","2","0">>) }],
      [name |-> <<"n">>, dtype |-> "object",
       pool |-> { Str(<<"1",",","2","3","4","5">>), Str(<<"-">>) }] }

preColumn(name) == CHOOSE c \in PreColumns : c.name = name

PreHeaderLists ==
    { << <<"l","a","t","i","t","u","d","e">>, <<"l","o","n","g","i","t","u","d","e">> >>,
      << <<"l","a","t","i","t","u","d","e">> >>,
      << <<"l","o","n","g","i","t","u","d","e">>, <<"n">> >>,
      << <<"L","a","t">>, <<"l","o","n">> >>,
      << <<"L","a","t">>, <<"l","o","n">>, <<"l","a","t","i","t","u","d","e">> >>,
      << <<"K","K","J","x">>, <<"k","k","j","y">> >>,
      << <<"K","K","J","x">>, <<"k","k","j","y">>, <<"n">> >>,
      << <<"l","a","t","i","t","u","d","e">>, <<"K","K","J","x">>, <<"k","k","j","y">> >>,
      << <<"L","a","t">>, <<"l","o","n">>, <<"K","K","J","x">>, <<"k","k","j","y">> >>,
      << <<"D","a","t","e">>, <<"n">> >>,
      << <<"D","a","t","e">>, <<"D","a","t","e">>, <<"n">> >>,
      << <<"n">> >> }

RECURSIVE tablesOf(_)
tablesOf(hs) ==
    IF hs = <<>> THEN { <<>> }
    ELSE { <<[name |-> Head(hs), dtype |-> preColumn(Head(hs)).dtype, vals |-> v]>> \o rest :
             v \in [1..NRows -> preColumn(Head(hs)).pool], rest \in tablesOf(Tail(hs)) }

PreTables == UNION { tablesOf(hs) : hs \in PreHeaderLists }

InitPre ==
    /\ pc = "start"
    /\ df \in PreTables
    /\ staged = Idle
    /\ cleaned = Idle
    /\ cols = Idle /\ normalized = Idle /\ renormalized = Idle
    /\ col = Idle /\ coerced = Idle
    /\ series = Idle /\ parsed = Idle
    /\ table = Idle /\ cats = Idle
    /\ viewIdle

Preprocess ==
    /\ pc = "start"
    /\ \E transformOk \in BOOLEAN, dupAssignOk \in BOOLEAN :
          LET stagedTable == stageCoordinates(df, transformOk) IN
          /\ staged' = stagedTable
          /\ cleaned' = finish(stagedTable, dupAssignOk)
    /\ pc' = "cleaned"
    /\ UNCHANGED <<cols, normalized, renormalized, col, coerced, series, parsed,
                   df, table, cats, viewVars>>

NextPre == Preprocess

SpecPre == InitPre /\ [][NextPre]_vars

----------------------------------------------------------------------------
(* Properties of coordinate resolution *)

returned == pc = "cleaned" /\ ~cleaned.raised

\* C1 as stated: in the returned table latitude is null exactly in the rows
\* where longitude is null.
C1_CoordinatesNullTogether ==
    returned =>
        \A i, j \in DOMAIN cleaned.df :
            (cleaned.df[i].name = latitudeName /\ cleaned.df[j].name = longitudeName)
                => \A r \in DOMAIN cleaned.df[i].vals :
                       isna(cleaned.df[i].vals[r]) <=> isna(cleaned.df[j].vals[r])

\* C2 as stated: when the typed table has a column named lat / latitude and
\* one named lon / long / lng / longitude (case-insensitively), step 5 adds
\* the range-checked numeric values of those two columns and the KKJ
\* strategy is not used.
C2_NamedColumnsResolve ==
    pc = "cleaned" =>
        LET t == typed(df)
            found == find_lat_lon_perColumn(t)
        IN  (found.lat # None /\ found.lon # None)
                => staged = t \o named_cols(t, found.lat, found.lon)

\* C3 as stated: the returned table has a latitude column exactly when it has
\* a longitude column.
C3_LatitudeIffLongitude ==
    returned =>
        (hasColumn(cleaned.df, latitudeName) <=> hasColumn(cleaned.df, longitudeName))

\* C4 as stated: step 5 adds latitude / longitude only when no column has that
\* name, so the column names of the table are pairwise distinct.
C4_DistinctColumnNames ==
    pc = "cleaned" =>
        /\ Distinct(columnNames(staged))
        /\ ~cleaned.raised => Distinct(columnNames(cleaned.df))

----------------------------------------------------------------------------
(* The column classifier *)

CAT_RULES ==
   << [cat |-> "Time",
       contains_any |->
           << <<"d","a","t","e">>, <<"t","i","m","e">>, <<"a","i","k","a">>,
              <<"p","ä","i","v","ä">>, <<"k","u","u","k","a","u","s","i">>,
              <<"v","i","i","k","k","o">>, <<"v","m","i">>, <<"v","u","o","s","i">>,
              <<"t","i","m","e","s","t","a","m","p">>,
              <<"d","a","t","e","t","i","m","e">>, <<"c","r","e","a","t","e","d">>,
              <<"m","o","d","i","f","i","e","d">> >>,
       whole_word |->
           << <<"p","v","m">>, <<"p","p">>, <<"d","d">>, <<"k","k">>, <<"m","m">>,
              <<"y","y","y","y">>, <<"v","v","v","v">>, <<"v","k","o">> >>],
      [cat |-> "Coordinates",
       contains_any |->
           << <<"l","a","t">>, <<"l","a","t","i","t","u","d","e">>, <<"l","o","n">>,
              <<"l","o","n","g">>, <<"l","n","g">>,
              <<"l","o","n","g","i","t","u","d","e">>, <<"k","o","o","r","d">>,
              <<"c","o","o","r","d">>, <<"x","_">>, <<"y","_">> >>,
       whole_word |->
           << <<"x">>, <<"y">> >>],
      [cat |-> "Boolean-like",
       contains_any |->
           <<>>,
       whole_word |->
           <<>>],
      [cat |-> "Region or area",
       contains_any |->
           << <<"m","a","a","k","u","n","t","a">>, <<"r","e","g","i","o","n">>,
              <<"c","o","u","n","t","y">>, <<"p","r","o","v","i","n","c","e">>,
              <<"c","o","u","n","t","r","y">>, <<"b","l","o","c","k">>,
              <<"s","t","a","n","d">>, <<"p","l","o","t">>,
              <<"p","i","n","t","a","-","a","l","a">>, <<"a","r","e","a">>,
              <<"p","i","n","t","a","_","a","l","a">> >>,
       whole_word |->
           << <<"s","i","t","e">> >>],
      [cat |-> "Species",
       contains_any |->
           << <<"s","p","e","c","i","e","s">> >>,
       whole_word |->
           << <<"p","u","u","l","a","j","i">> >>],
      [cat |-> "Site type",
       contains_any |->
           << <<"m","e","t","s","ä","t","y","y","p","p">>, <<"m","e","t","s","a">>,
              <<"f","o","r","e","s","t"," ","t","y","p","e">>, <<"s","i","t","e">>,
              <<"s","o","i","l">>, <<"m","a","a","p","e","r","ä">>,
              <<"g","r","o","u","n","d"," ","t","y","p","e">> >>,
       whole_word |->
           << <<"s","i","t","e",".","t","y","p","e">>,
              <<"s","i","t","e","_","t","y","p","e">>,
              <<"m","a","a","n","_","l","a","j","i">>,
              <<"m","a","a","l","a","j","i">>, <<"m","a","a","_","l","a","j","i">> >>],
      [cat |-> "Counts",
       contains_any |->
           << <<"c","o","u","n","t">>, <<"n","u","m","b","e","r">>,
              <<"q","u","a","n","t","i","t","y">>, <<"m","ä","ä","r","ä">>,
              <<"l","u","k","u","m","ä","ä","r","ä">>, <<"n","o","_">>,
              <<"l","k","m">>, <<"k","p","l">>, <<"q","t","y">> >>,
       whole_word |->
           <<>>],
      [cat |-> "Lengths",
       contains_any |->
           << <<"l","e","n","g","t","h">>, <<"p","i","t","u","u","s">>,
              <<"h","e","i","g","h","t">>, <<"k","o","r","k","e","u","s">>,
              <<"d","i","a","m","e","t","e","r">>,
              <<"l","ä","p","i","m","i","t","t","a">> >>,
       whole_word |->
           <<>>] >>

TRUE_TOKENS ==
    { <<"1">>, <<"t","r","u","e">>, <<"y","e","s">>, <<"y">>, <<"t">>, <<"o","n">>, <<"k","y","l","l","ä">> }
FALSE_TOKENS ==
    { <<"0">>, <<"f","a","l","s","e">>, <<"n","o">>, <<"n">>, <<"f">>, <<"o","f","f">>, <<"e","i">> }

ALL_CATEGORIES ==
    [i \in DOMAIN CAT_RULES |-> CAT_RULES[i].cat] \o <<"Numeric", "Text", "Other">>

\* name-based match: substring or exact token, on the trimmed lowercased name
match_category(colname, rules) ==
    LET name == lower(strip(colname, {" "}))
    IN  \/ \E i \in DOMAIN rules.contains_any : contains(name, lower(rules.contains_any[i]))
        \/ \E i \in DOMAIN rules.whole_word : name = lower(rules.whole_word[i])

Int01(b) == [t |-> "int", v |-> b]

\* str(value) of a cell that is neither null, bool nor number
cellText(value) == IF value.t = "str" THEN value.v ELSE <<"?">>

map_to_01(value) ==
    IF isna(value) THEN Null
    ELSE IF value.t = "bool" THEN (IF value.v THEN Int01(1) ELSE Int01(0))
    ELSE IF value.t = "num"
    THEN IF value.v = 1 * Scale THEN Int01(1)
         ELSE IF value.v = 0 THEN Int01(0)
         ELSE Null
    ELSE LET s == lower(strip(cellText(value), {" "}))
         IN  IF s \in TRUE_TOKENS THEN Int01(1)
             ELSE IF s \in FALSE_TOKENS THEN Int01(0)
             ELSE IF s = <<"0">> THEN Int01(0)
             ELSE IF s = <<"1">> THEN Int01(1)
             ELSE Null

is_bool_dtype(c) == c.dtype = "bool"

\* a validation that only looks at the values that did map
is_boolean_like_mappedOnly(c) ==
    IF Len(c.vals) = 0 THEN FALSE
    ELSE LET non_null == dropna(c.vals) IN
         IF non_null = <<>> THEN FALSE
         ELSE IF is_bool_dtype(c) THEN TRUE
         ELSE LET mapped == [i \in DOMAIN non_null |-> map_to_01(non_null[i])]
                  unique_values == { mapped[i] : i \in { j \in DOMAIN mapped : ~isna(mapped[j]) } }
              IN  unique_values \subseteq { Int01(0), Int01(1) }

is_boolean_like(c) ==
    IF Len(c.vals) = 0 THEN FALSE
    ELSE LET non_null == dropna(c.vals) IN
         IF non_null = <<>> THEN FALSE
         ELSE IF is_bool_dtype(c) THEN TRUE
         ELSE LET mapped == [i \in DOMAIN non_null |-> map_to_01(non_null[i])]
                  all_values_valid == \A i \in DOMAIN mapped : ~isna(mapped[i])
                  unique_values == { mapped[i] : i \in { j \in DOMAIN mapped : ~isna(mapped[j]) } }
                  only_contains_01 == unique_values \subseteq { Int01(0), Int01(1) }
              IN  all_values_valid /\ only_contains_01

\* a rule loop without the `break`: the last matching rule wins
firstRuleLastHit(colname) ==
    LET hits == { i \in DOMAIN CAT_RULES :
                    CAT_RULES[i].cat # "Boolean-like" /\ match_category(colname, CAT_RULES[i]) }
    IN  IF hits = {} THEN 0 ELSE CHOOSE i \in hits : \A j \in hits : i >= j

\* the first name rule, in CAT_RULES order and skipping Boolean-like, that
\* the column name matches; 0 when none does
firstRule(colname) ==
    LET hits == { i \in DOMAIN CAT_RULES :
                    CAT_RULES[i].cat # "Boolean-like" /\ match_category(colname, CAT_RULES[i]) }
    IN  IF hits = {} THEN 0 ELSE CHOOSE i \in hits : \A j \in hits : i <= j

\* step 3 of the loop body: the dtype bucket
fallbackCategory(c) ==
    IF is_numeric_dtype(c) THEN "Numeric"
    ELSE IF is_string_dtype(c) THEN "Text"
    ELSE "Other"

\* a loop body without the `continue` after the Boolean-like append: a
\* boolean-like column falls through to its dtype bucket as well
categorizeOneNoContinue(c, cats_) ==
    IF firstRule(c.name) # 0
    THEN [cats_ EXCEPT ![CAT_RULES[firstRule(c.name)].cat] = Append(@, c.name)]
    ELSE IF is_boolean_like(c)
    THEN [cats_ EXCEPT !["Boolean-like"] = Append(@, c.name),
                       ![fallbackCategory(c)] = Append(@, c.name)]
    ELSE [cats_ EXCEPT ![fallbackCategory(c)] = Append(@, c.name)]

\* a loop body that looks at the content before the name
categorizeOneContentFirst(c, cats_) ==
    IF is_boolean_like(c)
    THEN [cats_ EXCEPT !["Boolean-like"] = Append(@, c.name)]
    ELSE IF firstRule(c.name) # 0
    THEN [cats_ EXCEPT ![CAT_RULES[firstRule(c.name)].cat] = Append(@, c.name)]
    ELSE [cats_ EXCEPT ![fallbackCategory(c)] = Append(@, c.name)]

\* the loop body: the column is appended to one list of cats
categorizeOne(c, cats_) ==
    IF firstRule(c.name) # 0
    THEN [cats_ EXCEPT ![CAT_RULES[firstRule(c.name)].cat] = Append(@, c.name)]
    ELSE IF is_boolean_like(c)
    THEN [cats_ EXCEPT !["Boolean-like"] = Append(@, c.name)]
    ELSE [cats_ EXCEPT ![fallbackCategory(c)] = Append(@, c.name)]

\* the loop over df.columns: cats maps every category to its list so far
RECURSIVE categorizeLoop(_, _)
categorizeLoop(rest, cats_) ==
    IF rest = <<>> THEN cats_
    ELSE categorizeLoop(Tail(rest), categorizeOne(Head(rest), cats_))

\* the returned dict: the non-empty categories in insertion order, as a
\* sequence of [category, columns]
nonEmptyCategories(cats_) ==
    LET keep == { i \in DOMAIN ALL_CATEGORIES : cats_[ALL_CATEGORIES[i]] # <<>> }
    IN  selectSeq([i \in DOMAIN ALL_CATEGORIES |->
                      [category |-> ALL_CATEGORIES[i], columns |-> cats_[ALL_CATEGORIES[i]]]],
                  keep)

categorize_columns(t) ==
    nonEmptyCategories(categorizeLoop(t, [cat \in Range(ALL_CATEGORIES) |-> <<>>]))

----------------------------------------------------------------------------
(* Classification on its own: SpecCat *)

MaxCatCols == 2

CatNames ==
    { <<"D","a","t","e">>, <<"c","o","u","n","t","y">>, <<"s","i","t","e">>,
      <<"l","a","t","i","t","u","d","e">>, <<"f","l","a","g">>, <<"n">> }

CatContents ==
    { [dtype |-> "int64", vals |-> <<Num(1 * Scale), Num(0)>>],
      [dtype |-> "float64", vals |-> <<Num(1 * Scale), Num(25000)>>],
      [dtype |-> "float64", vals |-> <<Null, Null>>],
      [dtype |-> "object", vals |-> <<Num(0), Str(<<"Y","e","s"," ">>)>>],
      [dtype |-> "string", vals |-> <<Str(<<"x">>), Null>>],
      [dtype |-> "datetime64", vals |-> <<Date(2020, 1, 31), Null>>],
      [dtype |-> "bool", vals |-> <<Bool(TRUE), Bool(FALSE)>>] }

InitCat ==
    /\ pc = "start"
    /\ \E k \in 0..MaxCatCols :
          \E names \in { s \in [1..k -> CatNames] : Distinct(s) },
             contents \in [1..k -> CatContents] :
              table = [i \in 1..k |->
                         [name |-> names[i], dtype |-> contents[i].dtype,
                          vals |-> contents[i].vals]]
    /\ cats = Idle
    /\ cols = Idle /\ normalized = Idle /\ renormalized = Idle
    /\ col = Idle /\ coerced = Idle
    /\ series = Idle /\ parsed = Idle
    /\ df = Idle /\ staged = Idle /\ cleaned = Idle
    /\ viewIdle

Categorize ==
    /\ pc = "start"
    /\ cats' = categorize_columns(table)
    /\ pc' = "categorized"
    /\ UNCHANGED <<cols, normalized, renormalized, col, coerced, series, parsed,
                   df, staged, cleaned, table, viewVars>>

NextCat == Categorize

SpecCat == InitCat /\ [][NextCat]_vars

----------------------------------------------------------------------------
(* Properties of the classifier *)

\* the positions of cats whose list holds the column name
categoriesHolding(name) ==
    { k \in DOMAIN cats : \E i \in DOMAIN cats[k].columns : cats[k].columns[i] = name }

\* C10: categorize_columns lists every column of the table in exactly one
\* category and exactly once, lists no name that is not a column of the
\* table, and returns no category with an empty list.
C10_PartitionOfColumns ==
    pc = "categorized" =>
        /\ \A i \in DOMAIN table :
              /\ Cardinality(categoriesHolding(table[i].name)) = 1
              /\ \A k \in categoriesHolding(table[i].name) :
                    Cardinality({ j \in DOMAIN cats[k].columns :
                                    cats[k].columns[j] = table[i].name }) = 1
        /\ \A k \in DOMAIN cats : \A j \in DOMAIN cats[k].columns :
              hasColumn(table, cats[k].columns[j])
        /\ \A k \in DOMAIN cats : cats[k].columns # <<>>
        /\ Distinct([k \in DOMAIN cats |-> cats[k].category])

\* C10 witness: a table of two columns, one filed by a name rule and one
\* boolean-like by content, has been classified into two categories.
C10_Witness ==
    /\ pc = "categorized"
    /\ Len(table) = 2
    /\ \E i, j \in DOMAIN table :
          /\ firstRule(table[i].name) # 0
          /\ firstRule(table[j].name) = 0 /\ is_boolean_like(table[j])
    /\ Len(cats) = 2

\* the name-rule categories in their fixed order of evaluation
RuleOrder ==
    << "Time", "Coordinates", "Region or area", "Species", "Site type", "Counts", "Lengths" >>

rulesOf(category) == CAT_RULES[CHOOSE i \in DOMAIN CAT_RULES : CAT_RULES[i].cat = category]

\* the positions in RuleOrder of the categories whose name rules the name matches
matchingCategories(name) ==
    { k \in DOMAIN RuleOrder : match_category(name, rulesOf(RuleOrder[k])) }

\* the category of the returned map that lists the column name
categoryOf(name) == cats[CHOOSE k \in categoriesHolding(name) : TRUE].category

\* C11: a column whose lowercased name matches the name rules of one or more
\* categories is listed under the earliest of them in the order Time,
\* Coordinates, Region or area, Species, Site type, Counts, Lengths, whatever
\* its content; a column named county is listed under Region or area (not
\* Counts) and a column named site under Region or area (not Site type).
C11_FirstMatchWins ==
    pc = "categorized" =>
        \A i \in DOMAIN table :
            LET m == matchingCategories(table[i].name) IN
            /\ m # {} =>
                  /\ categoriesHolding(table[i].name) # {}
                  /\ \E k \in m :
                        /\ \A j \in m : k <= j
                        /\ categoryOf(table[i].name) = RuleOrder[k]
            /\ table[i].name \in { <<"c","o","u","n","t","y">>, <<"s","i","t","e">> }
                  => /\ Cardinality(m) = 2
                     /\ categoryOf(table[i].name) = "Region or area"

\* C11 witness: a table with a county column and a site column has been
\* classified, and both are listed under Region or area.
C11_Witness ==
    /\ pc = "categorized"
    /\ hasColumn(table, <<"c","o","u","n","t","y">>)
    /\ hasColumn(table, <<"s","i","t","e">>)
    /\ \E k \in DOMAIN cats :
          /\ cats[k].category = "Region or area"
          /\ Len(cats[k].columns) = 2

----------------------------------------------------------------------------
(* Boolean-like detection on its own: SpecBool *)

MaxBoolLen == 4

BoolCells ==
    { Null, Num(0), Num(1 * Scale), Num(2 * Scale), Bool(TRUE),
      Str(<<"Y","e","s"," ">>), Str(<<"n","o">>), Str(<<"m","a","y","b","e">>) }

\* the dtypes a column of these values can have
dtypesOf(vals) ==
    { "object" }
      \cup (IF vals # <<>> /\ \A i \in DOMAIN vals : vals[i].t = "bool" THEN { "bool" } ELSE {})
      \cup (IF \A i \in DOMAIN vals : vals[i].t \in { "num", "null" } THEN { "float64" } ELSE {})

BoolColumns ==
    { c \in [name : { <<"f","l","a","g">> }, dtype : { "object", "bool", "float64" },
             vals : SeqsUpTo(BoolCells, MaxBoolLen)] : c.dtype \in dtypesOf(c.vals) }

InitBool ==
    /\ pc = "start"
    /\ col \in BoolColumns
    /\ boolLike = Idle
    /\ appIdle
    /\ cols = Idle /\ normalized = Idle /\ renormalized = Idle
    /\ coerced = Idle
    /\ series = Idle /\ parsed = Idle
    /\ df = Idle /\ staged = Idle /\ cleaned = Idle
    /\ table = Idle /\ cats = Idle
    /\ request = Idle /\ filtered = Idle /\ fig = Idle

IsBooleanLike ==
    /\ pc = "start"
    /\ boolLike' = is_boolean_like(col)
    /\ pc' = "tested"
    /\ UNCHANGED <<cols, normalized, renormalized, col, coerced, series, parsed,
                   df, staged, cleaned, table, cats, request, filtered, fig,
                   appVars>>

NextBool == IsBooleanLike

SpecBool == InitBool /\ [][NextBool]_vars

\* a value that stands for 0 or 1: a boolean, the number 0 or 1, or a text
\* that is a true or false token once trimmed and lowercased
unambiguous01(v) ==
    \/ v.t = "bool"
    \/ v.t = "num" /\ v.v \in { 0, 1 * Scale }
    \/ v.t = "str" /\ lower(strip(v.v, {" "})) \in TRUE_TOKENS \cup FALSE_TOKENS

\* C12: for a column with at least one non-null value, is_boolean_like is
\* true exactly when every non-null value is a boolean, the number 0 or 1,
\* or a true/false token (trimmed, case-insensitive); a column holding the
\* number 2 is not boolean-like, and the column 0, 1, "yes", "no" is.
C12_BooleanLikeIffAllMap ==
    pc = "tested" /\ (\E i \in DOMAIN col.vals : ~isna(col.vals[i])) =>
        /\ boolLike <=> \A i \in DOMAIN col.vals :
                            ~isna(col.vals[i]) => unambiguous01(col.vals[i])
        /\ (\E i \in DOMAIN col.vals : col.vals[i] = Num(2 * Scale)) => ~boolLike
        /\ col.vals = <<Num(0), Num(1 * Scale), Str(<<"Y","e","s"," ">>), Str(<<"n","o">>)>>
              => boolLike

\* C12 witness: the mixed column 0, 1, "Yes ", "no" has been found boolean-like.
C12_Witness ==
    /\ pc = "tested"
    /\ col.vals = <<Num(0), Num(1 * Scale), Str(<<"Y","e","s"," ">>), Str(<<"n","o">>)>>
    /\ boolLike = TRUE

----------------------------------------------------------------------------
(* Filtering (services/transforms.py, utils/helpers.py) *)

ALL_SENTINEL == <<"_","_","A","L","L","_","_">>

\* the rows of a table at the positions of keep, in their order
rowsAt(t, keep) == [i \in DOMAIN t |-> [t[i] EXCEPT !.vals = selectSeq(t[i].vals, keep)]]

\* df.iloc[0:0]: no row, every column
iloc_none(t) == rowsAt(t, {})

subset_to_active(t, active_cols, also_keep) ==
    LET active == Range(active_cols)
        extra == { c \in Range(also_keep) : hasColumn(t, c) }
        must == IF hasColumn(t, latitudeName) /\ hasColumn(t, longitudeName)
                THEN { latitudeName, longitudeName } ELSE {}
        keep == { i \in DOMAIN t : t[i].name \in active \cup must \cup extra }
    IN  IF keep = {} THEN iloc_none(t) ELSE selectSeq(t, keep)

\* str() of a natural number
RECURSIVE natText(_)
natText(n) ==
    IF n < 10 THEN <<Digits[n + 1]>> ELSE natText(n \div 10) \o <<Digits[(n % 10) + 1]>>

\* str() of an integer held in 1/Scale
intText(v) == IF v < 0 THEN <<"-">> \o natText((-v) \div Scale) ELSE natText(v \div Scale)

\* the decimals of a number held in 1/Scale, without trailing zeros
RECURSIVE fracText(_, _)
fracText(f, width) ==
    IF f = 0 THEN <<>>
    ELSE <<Digits[(f \div (10 ^ (width - 1))) + 1]>> \o fracText(f % (10 ^ (width - 1)), width - 1)

\* str() of a float held in 1/Scale: 2010.0, 61.5, -0.25
floatText(v) ==
    LET a == IF v < 0 THEN -v ELSE v
        f == fracText(a % Scale, DECIMALS + 1)
    IN  (IF v < 0 THEN <<"-">> ELSE <<>>) \o natText(a \div Scale) \o <<".">>
           \o (IF f = <<>> THEN <<"0">> ELSE f)

twoDigits(n) == IF n < 10 THEN <<"0">> \o natText(n) ELSE natText(n)

\* str() of a date: 2010-01-31
dateText(d) == natText(d[1]) \o <<"-">> \o twoDigits(d[2]) \o <<"-">> \o twoDigits(d[3])

\* Series.astype(str) on one cell of a column of the given dtype
cell_astype_str(dtype, c) ==
    IF c.t = "null"
    THEN (IF dtype = "string" THEN <<"<","N","A",">">>
          ELSE IF dtype = "datetime64" THEN <<"N","a","T">>
          ELSE IF dtype = "object" THEN <<"N","o","n","e">>
          ELSE <<"n","a","n">>)
    ELSE IF c.t = "str" THEN c.v
    ELSE IF c.t = "bool" THEN (IF c.v THEN <<"T","r","u","e">> ELSE <<"F","a","l","s","e">>)
    ELSE IF c.t = "date" THEN dateText(c.v)
    ELSE IF c.t = "num" THEN (IF dtype = "int64" THEN intText(c.v) ELSE floatText(c.v))
    ELSE <<"i","n","f">>

astype_str(c) == [r \in DOMAIN c.vals |-> cell_astype_str(c.dtype, c.vals[r])]

\* str(val) of a filter value: a text, or a whole number
str_val(val) == IF val.t = "str" THEN val.v ELSE intText(val.v)

\* a filter without the test for the all_token
apply_value_filter_noSentinel(t, col_, val, all_token) ==
    IF col_ = <<>> \/ isna(val) \/ ~hasColumn(t, col_) THEN t
    ELSE LET texts == astype_str(column(t, col_))
         IN  rowsAt(t, { r \in DOMAIN texts : texts[r] = str_val(val) })

\* a filter that keeps the rows that differ from the value
apply_value_filter_negated(t, col_, val, all_token) ==
    IF col_ = <<>> \/ isna(val) \/ ~hasColumn(t, col_) THEN t
    ELSE IF ~isna(all_token) /\ val = all_token THEN t
    ELSE LET texts == astype_str(column(t, col_))
         IN  rowsAt(t, { r \in DOMAIN texts : texts[r] # str_val(val) })

\* col_ is None or a name (None and "" are both falsy); val and all_token
\* are None (Null) or a value
apply_value_filter(t, col_, val, all_token) ==
    IF col_ = <<>> \/ isna(val) \/ ~hasColumn(t, col_) THEN t
    ELSE IF ~isna(all_token) /\ val = all_token THEN t
    ELSE LET texts == astype_str(column(t, col_))
         IN  rowsAt(t, { r \in DOMAIN texts : texts[r] = str_val(val) })

\* whether a number held in 1/Scale is whole
isWhole(c) == c.t = "num" /\ c.v % Scale = 0

\* extract_years(series): [raised, years].  Series.astype("Int64") raises
\* TypeError (cannot safely cast non-equivalent float64 to int64) when a
\* coerced value is not whole
extract_years(c) ==
    IF is_datetime64_any_dtype(c)
    THEN [raised |-> FALSE,
          years |-> [r \in DOMAIN c.vals |->
                        IF c.vals[r].t = "date" THEN Num(c.vals[r].v[1] * Scale) ELSE Null]]
    ELSE LET nums == [r \in DOMAIN c.vals |-> to_numeric_coerce(c.vals[r])]
         IN  IF \E r \in DOMAIN nums : ~isna(nums[r]) /\ ~isWhole(nums[r])
             THEN [raised |-> TRUE, years |-> <<>>]
             ELSE [raised |-> FALSE, years |-> nums]

\* str(y).isdigit() of a selected year: a whole number >= 0 or a text of digits
year_isdigit(y) ==
    \/ y.t = "num" /\ y.v >= 0 /\ y.v % Scale = 0
    \/ y.t = "str" /\ y.v # <<>> /\ isDigits(y.v)

\* int(y)
year_int(y) == IF y.t = "num" THEN y ELSE Num(digitsVal(y.v) * Scale)

\* time_col is None or a name; years is a list of selected periods (None
\* and [] are both falsy)
apply_year_filter(t, time_col, years) ==
    IF time_col = <<>> \/ ~hasColumn(t, time_col) \/ years = <<>>
    THEN [raised |-> FALSE, df |-> t]
    ELSE IF \E k \in DOMAIN years : years[k] = Str(ALL_SENTINEL)
    THEN [raised |-> FALSE, df |-> t]
    ELSE LET ints == { year_int(years[k]) : k \in { j \in DOMAIN years : year_isdigit(years[j]) } }
             extracted == extract_years(column(t, time_col))
         IN  IF extracted.raised THEN [raised |-> TRUE, df |-> <<>>]
             ELSE [raised |-> FALSE,
                   df |-> rowsAt(t, { r \in DOMAIN extracted.years : extracted.years[r] \in ints })]

----------------------------------------------------------------------------
(* The filter functions on their own: SpecFilter *)

FilterRows == 3

siteName == <<"s","i","t","e">>
yearName == <<"y","e","a","r">>
timeName == <<"t","i","m","e">>
dateName == <<"d","a","t","e">>
labelName == <<"l","a","b","e","l">>

\* the columns of the tables: name, dtype and the values a cell can take
FilterColumns ==
    { [name |-> siteName, dtype |-> "string", pool |-> { Str(<<"A">>), Str(<<"B">>), Null }],
      [name |-> yearName, dtype |-> "int64",
       pool |-> { Num(2009 * Scale), Num(2010 * Scale), Num(2011 * Scale) }],
      [name |-> timeName, dtype |-> "float64",
       pool |-> { Num(2010 * Scale), Num(2010 * Scale + Scale \div 2), Null }],
      [name |-> dateName, dtype |-> "datetime64",
       pool |-> { Date(2010, 1, 31), Date(2011, 6, 1), Null }],
      [name |-> labelName, dtype |-> "object", pool |-> { Str(<<"2","0","1","0">>), Str(<<"x">>) }],
      [name |-> latitudeName, dtype |-> "float64", pool |-> { Num(615000) }],
      [name |-> longitudeName, dtype |-> "float64", pool |-> { Num(250000) }] }

filterColumn(name) == CHOOSE c \in FilterColumns : c.name = name

FilterHeaderLists ==
    { <<>>, <<siteName>>, <<yearName>>, <<timeName>>, <<dateName>>, <<labelName>>,
      <<yearName, labelName>>, <<latitudeName, longitudeName, siteName>>,
      <<latitudeName, yearName>>, <<longitudeName>> }

\* every table with the given headers and FilterRows rows
RECURSIVE filterTablesOf(_)
filterTablesOf(hs) ==
    IF hs = <<>> THEN { <<>> }
    ELSE LET c == filterColumn(Head(hs)) IN
         { <<[name |-> c.name, dtype |-> c.dtype, vals |-> vals]>> \o rest :
             vals \in [1..FilterRows -> c.pool], rest \in filterTablesOf(Tail(hs)) }

FilterTables == UNION { filterTablesOf(hs) : hs \in FilterHeaderLists }

ActiveLists ==
    { <<>>, <<siteName>>, <<yearName>>, <<yearName, latitudeName>>, <<labelName, siteName>> }
AlsoKeepLists ==
    { <<None, None>>, <<timeName, siteName>>, <<yearName, None>>, <<dateName, labelName>> }
FilterCols == { None, siteName, yearName, timeName, labelName, dateName }
FilterVals ==
    { Null, Str(ALL_SENTINEL), Str(<<"A">>), Str(<<"2","0","1","0">>),
      Str(<<"2","0","1","0",".","0">>), Str(<<"n","a","n">>), Num(2010 * Scale) }
YearLists ==
    { <<>>, <<Str(ALL_SENTINEL)>>, <<Num(2010 * Scale)>>,
      <<Num(2010 * Scale), Str(ALL_SENTINEL)>>, <<Str(<<"2","0","1","0">>)>>,
      <<Num(2009 * Scale), Num(2011 * Scale)>>, <<Str(<<"x">>)>> }

InitFilter ==
    /\ pc = "start"
    /\ df \in FilterTables
    /\ request = Idle /\ filtered = Idle
    /\ cols = Idle /\ normalized = Idle /\ renormalized = Idle
    /\ col = Idle /\ coerced = Idle
    /\ series = Idle /\ parsed = Idle
    /\ staged = Idle /\ cleaned = Idle
    /\ table = Idle /\ cats = Idle
    /\ boolLike = Idle /\ fig = Idle
    /\ appIdle

SubsetToActive ==
    /\ pc = "start"
    /\ \E active_cols \in ActiveLists, also_keep \in AlsoKeepLists :
          /\ request' = [active_cols |-> active_cols, also_keep |-> also_keep]
          /\ filtered' = [raised |-> FALSE, df |-> subset_to_active(df, active_cols, also_keep)]
    /\ pc' = "subset"
    /\ UNCHANGED <<cols, normalized, renormalized, col, coerced, series, parsed,
                   df, staged, cleaned, table, cats, boolLike, fig,
                   appVars>>

ApplyValueFilter ==
    /\ pc = "start"
    /\ \E col_ \in FilterCols, val \in FilterVals, all_token \in { Null, Str(ALL_SENTINEL) } :
          /\ request' = [col |-> col_, val |-> val, all_token |-> all_token]
          /\ filtered' = [raised |-> FALSE, df |-> apply_value_filter(df, col_, val, all_token)]
    /\ pc' = "value_filtered"
    /\ UNCHANGED <<cols, normalized, renormalized, col, coerced, series, parsed,
                   df, staged, cleaned, table, cats, boolLike, fig,
                   appVars>>

ApplyYearFilter ==
    /\ pc = "start"
    /\ \E time_col \in FilterCols, years \in YearLists :
          /\ request' = [time_col |-> time_col, years |-> years]
          /\ filtered' = apply_year_filter(df, time_col, years)
    /\ pc' = "year_filtered"
    /\ UNCHANGED <<cols, normalized, renormalized, col, coerced, series, parsed,
                   df, staged, cleaned, table, cats, boolLike, fig,
                   appVars>>

NextFilter == SubsetToActive \/ ApplyValueFilter \/ ApplyYearFilter

SpecFilter == InitFilter /\ [][NextFilter]_vars

----------------------------------------------------------------------------
(* Properties of the filter functions *)

\* the rows of a table, each a tuple of its cells in column order
rowsOf(t) == [r \in 1..nrows(t) |-> [i \in DOMAIN t |-> t[i].vals[r]]]

columnTypes(t) == [i \in DOMAIN t |-> [name |-> t[i].name, dtype |-> t[i].dtype]]

\* the positions of the columns that subset_to_active is to keep
wantedColumns ==
    { i \in DOMAIN df :
        \/ df[i].name \in Range(request.active_cols)
        \/ df[i].name \in Range(request.also_keep)
        \/ /\ df[i].name \in { latitudeName, longitudeName }
           /\ hasColumn(df, latitudeName) /\ hasColumn(df, longitudeName) }

\* C13: with the column present and a non-null value other than the ALL
\* sentinel, apply_value_filter returns the columns of the input and, in
\* their original order, exactly the rows whose cell in the column has the
\* string representation of the value.
C13_KeepsMatchingRows ==
    (/\ pc = "value_filtered"
     /\ hasColumn(df, request.col)
     /\ ~isna(request.val)
     /\ request.val # Str(ALL_SENTINEL)) =>
        LET c == column(df, request.col)
            matching == { r \in 1..nrows(df) :
                            cell_astype_str(c.dtype, c.vals[r]) = str_val(request.val) }
        IN  /\ ~filtered.raised
            /\ columnTypes(filtered.df) = columnTypes(df)
            /\ rowsOf(filtered.df) = selectSeq(rowsOf(df), matching)

\* C13 witness: a filter on a present column kept the first and the last of
\* three rows and dropped the one between them.
C13_Witness ==
    /\ pc = "value_filtered"
    /\ hasColumn(df, request.col) /\ ~isna(request.val) /\ request.val # Str(ALL_SENTINEL)
    /\ nrows(df) = 3
    /\ rowsOf(filtered.df) = selectSeq(rowsOf(df), {1, 3})
    /\ rowsOf(df)[2] # rowsOf(df)[1]

\* C14: apply_value_filter returns its input unchanged when the value is the
\* all_token it was given, when the column is absent from the table (or
\* None), and when the value is None.
C14_NoOpOnAll ==
    (/\ pc = "value_filtered"
     /\ \/ ~isna(request.all_token) /\ request.val = request.all_token
        \/ ~hasColumn(df, request.col)
        \/ isna(request.val)) =>
        (~filtered.raised /\ filtered.df = df)

\* C14 witness: a filter with the ALL sentinel on a present column of a table
\* with rows, none of which holds the sentinel text, returned the table.
C14_Witness ==
    /\ pc = "value_filtered"
    /\ request.val = Str(ALL_SENTINEL) /\ request.all_token = Str(ALL_SENTINEL)
    /\ hasColumn(df, request.col)
    /\ nrows(df) > 0
    /\ filtered.df = df

\* the year of a cell as the filter is to derive it: the year of a date, the
\* whole number a value coerces to, Null when there is none
derivedYear(c, cell) ==
    IF is_datetime64_any_dtype(c)
    THEN (IF cell.t = "date" THEN Num(cell.v[1] * Scale) ELSE Null)
    ELSE LET n == to_numeric_coerce(cell) IN IF isWhole(n) THEN n ELSE Null

selectedYears == { year_int(request.years[k]) :
                     k \in { j \in DOMAIN request.years : year_isdigit(request.years[j]) } }

\* C15: with the time column present and a non-empty selection without ALL,
\* apply_year_filter does not fail and keeps exactly the rows whose derived
\* year is selected; a row without a derivable year (null, non-numeric,
\* non-integer) is dropped.
C15_KeepsSelectedYears ==
    (/\ pc = "year_filtered"
     /\ hasColumn(df, request.time_col)
     /\ request.years # <<>>
     /\ Str(ALL_SENTINEL) \notin Range(request.years)) =>
        LET c == column(df, request.time_col)
            kept == { r \in 1..nrows(df) : derivedYear(c, c.vals[r]) \in selectedYears }
        IN  /\ ~filtered.raised
            /\ columnTypes(filtered.df) = columnTypes(df)
            /\ rowsOf(filtered.df) = selectSeq(rowsOf(df), kept)

\* C16: subset_to_active returns every row of exactly the columns that are
\* active, or in also_keep, or latitude/longitude when the table has both,
\* in the column order of the table.
C16_KeepsWantedColumns ==
    pc = "subset" => (~filtered.raised /\ filtered.df = selectSeq(df, wantedColumns))

\* C17: when no column is to be kept, subset_to_active returns a table with
\* no columns and no rows.
C17_NothingSurvives ==
    (pc = "subset" /\ wantedColumns = {}) =>
        (Len(filtered.df) = 0 /\ nrows(filtered.df) = 0)

----------------------------------------------------------------------------
(* Chart builders (services/figures.py) *)

\* the figure of px.scatter() without arguments, and the figures of the
\* builders: kind, the nbins of a histogram, the bars of a bar chart as a set
\* of [x, y] (their order on the axis is not modelled), and the number of
\* rows or values plotted
EmptyFigure == [kind |-> "empty", nbins |-> 0, bars |-> {}, n |-> 0]

isfinite(c) == c.t = "num"

\* int(np.sqrt(n))
isqrt(n) == CHOOSE k \in 0..n : k * k <= n /\ (k + 1) * (k + 1) > n

max2(a, b) == IF a >= b THEN a ELSE b
min2(a, b) == IF a <= b THEN a ELSE b

\* col_ is None or a name
build_hist(t, col_) ==
    IF col_ = <<>> \/ ~hasColumn(t, col_) THEN EmptyFigure
    ELSE LET c == column(t, col_)
             s == [r \in DOMAIN c.vals |-> to_numeric_coerce(c.vals[r])]
             finite == { r \in DOMAIN s : isfinite(s[r]) }
         IN  IF finite = {} THEN EmptyFigure
             ELSE LET n_unique == Cardinality({ s[r].v : r \in finite })
                      n == isqrt(Cardinality(finite))
                      nbins == max2(5, min2(60, min2(n, n_unique)))
                  IN  [kind |-> "histogram", nbins |-> nbins, bars |-> {},
                       n |-> Cardinality(finite)]

----------------------------------------------------------------------------
(* The histogram on its own: SpecHist *)

MaxHistLen == 4
ManyValues == 10000

nName == <<"n">>

HistCells == { Num(1 * Scale), Num(2 * Scale), Num(25000), Null, Inf, Str(<<"x">>) }

\* short columns of every make-up, and long columns of distinct whole numbers
HistColumns ==
    { [name |-> nName,
       dtype |-> IF \E i \in DOMAIN vals : vals[i].t = "str" THEN "object" ELSE "float64",
       vals |-> vals] : vals \in SeqsUpTo(HistCells, MaxHistLen) }
    \cup { [name |-> nName, dtype |-> "int64", vals |-> [i \in 1..k |-> Num(i * Scale)]] :
             k \in { 24, 25, 3599, 3721, ManyValues } }
    \cup { [name |-> nName, dtype |-> "int64", vals |-> [i \in 1..k |-> Num((i % 3) * Scale)]] :
             k \in { 30, 3721 } }

InitHist ==
    /\ pc = "start"
    /\ df \in { <<c>> : c \in HistColumns }
    /\ request = Idle /\ fig = Idle
    /\ cols = Idle /\ normalized = Idle /\ renormalized = Idle
    /\ col = Idle /\ coerced = Idle
    /\ series = Idle /\ parsed = Idle
    /\ staged = Idle /\ cleaned = Idle
    /\ table = Idle /\ cats = Idle
    /\ boolLike = Idle /\ filtered = Idle
    /\ appIdle

BuildHist ==
    /\ pc = "start"
    /\ \E col_ \in { None, nName, yearName } :
          /\ request' = [col |-> col_]
          /\ fig' = build_hist(df, col_)
    /\ pc' = "hist"
    /\ UNCHANGED <<cols, normalized, renormalized, col, coerced, series, parsed,
                   df, staged, cleaned, table, cats, boolLike, filtered,
                   appVars>>

NextHist == BuildHist

SpecHist == InitHist /\ [][NextHist]_vars

\* the finite values of the column asked for
finiteValues ==
    LET c == column(df, request.col)
    IN  { r \in DOMAIN c.vals : isfinite(to_numeric_coerce(c.vals[r])) }

distinctFinite ==
    LET c == column(df, request.col)
    IN  Cardinality({ to_numeric_coerce(c.vals[r]).v : r \in finiteValues })

\* C18: for a column with finite values, build_hist uses
\* clamp(floor(sqrt(n)), 5, 60) bins, capped at the number of distinct finite
\* values, n being the number of finite values: 60 bins for 10000 distinct
\* values, 3 bins for a column with 3 distinct values.
C18_BinCount ==
    (/\ pc = "hist"
     /\ hasColumn(df, request.col)
     /\ finiteValues # {}) =>
        LET clamped == max2(5, min2(60, isqrt(Cardinality(finiteValues))))
        IN  /\ fig.kind = "histogram"
            /\ fig.nbins = min2(clamped, distinctFinite)
            /\ distinctFinite = ManyValues => fig.nbins = 60
            /\ distinctFinite = 3 => fig.nbins = 3

----------------------------------------------------------------------------
(* Bar chart and scatter plot (services/figures.py) *)

\* Series.round(0) of a number held in 1/Scale (half to even)
roundWhole(v) ==
    LET q == v \div Scale
        r == v % Scale
    IN  IF 2 * r < Scale THEN q * Scale
        ELSE IF 2 * r > Scale THEN (q + 1) * Scale
        ELSE IF q % 2 = 0 THEN q * Scale ELSE (q + 1) * Scale

\* the x column as build_bar relabels it: whole years for a numeric column
\* without nulls that has a value in 1800..2100, astype(str) otherwise
bar_labels(c) ==
    IF is_numeric_dtype(c)
       /\ (\A r \in DOMAIN c.vals : c.vals[r].t = "num")
       /\ (\E r \in DOMAIN c.vals : between(c.vals[r], 1800, 2100))
    THEN [r \in DOMAIN c.vals |-> intText(roundWhole(c.vals[r].v))]
    ELSE astype_str(c)

RECURSIVE sumOf(_, _)
sumOf(vals, rows) ==
    IF rows = {} THEN 0
    ELSE LET r == CHOOSE x \in rows : TRUE IN vals[r].v + sumOf(vals, rows \ {r})

\* .mean().round(3) of the values of a group of rows: nulls are skipped, a
\* group without values is NaN; the quotient is rounded to DECIMALS places,
\* half to even
group_mean(vals, rows) ==
    LET present == { r \in rows : vals[r].t = "num" }
        total == sumOf(vals, present)
        cnt == Cardinality(present)
        q == total \div (10 * cnt)
        rem == total - q * 10 * cnt
    IN  IF present = {} THEN Null
        ELSE IF 2 * rem < 10 * cnt THEN Num(q * 10)
        ELSE IF 2 * rem > 10 * cnt THEN Num((q + 1) * 10)
        ELSE IF q % 2 = 0 THEN Num(q * 10) ELSE Num((q + 1) * 10)

\* x_col and y_col are None or a name
build_bar(t, x_col, y_col) ==
    IF x_col = <<>> \/ ~hasColumn(t, x_col) THEN EmptyFigure
    ELSE LET labels == bar_labels(column(t, x_col))
             \* df[x_col] = ...: the x column becomes a column of text
             relabelled == [i \in DOMAIN t |->
                              IF t[i].name = x_col
                              THEN [name |-> x_col, dtype |-> "object",
                                    vals |-> [r \in DOMAIN labels |-> Str(labels[r])]]
                              ELSE t[i]]
             rowsOfLabel(x) == { r \in DOMAIN labels : labels[r] = x }
         IN  IF hasColumn(relabelled, y_col) /\ is_numeric_dtype(column(relabelled, y_col))
             THEN [kind |-> "bar", nbins |-> 0, n |-> nrows(t),
                   bars |-> { [x |-> x, y |-> group_mean(column(relabelled, y_col).vals, rowsOfLabel(x))] :
                                x \in Range(labels) }]
             ELSE [kind |-> "bar", nbins |-> 0, n |-> nrows(t),
                   bars |-> { [x |-> x, y |-> Num(Cardinality(rowsOfLabel(x)) * Scale)] :
                                x \in Range(labels) }]

RaisedFigure == [kind |-> "raised", nbins |-> 0, bars |-> {}, n |-> 0]

\* x_col, y_col and color_col are None or a name.  With a trendline asked
\* for and an x column that is not numeric, plotly either fits nothing and
\* plots or raises on the conversion of x: trendOk tells which
build_scatter(t, x_col, y_col, color_col, trendline, trendOk) ==
    IF x_col = <<>> \/ y_col = <<>> \/ ~hasColumn(t, x_col) \/ ~hasColumn(t, y_col)
    THEN EmptyFigure
    ELSE IF ~is_numeric_dtype(column(t, y_col)) THEN EmptyFigure
    ELSE IF trendline /\ ~is_numeric_dtype(column(t, x_col)) /\ ~trendOk THEN RaisedFigure
    ELSE [kind |-> "scatter", nbins |-> 0, bars |-> {}, n |-> nrows(t)]

----------------------------------------------------------------------------
(* Bar chart and scatter plot on their own: SpecChart *)

ChartRows == 3

mName == <<"m">>

ChartColumns ==
    { [name |-> siteName, dtype |-> "string", pool |-> { Str(<<"A">>), Str(<<"B">>), Null }],
      [name |-> yearName, dtype |-> "float64",
       pool |-> { Num(2010 * Scale), Num(2010 * Scale + 4000) }],
      [name |-> nName, dtype |-> "float64",
       pool |-> { Num(10 * Scale), Num(20 * Scale), Num(30 * Scale) }],
      [name |-> mName, dtype |-> "float64", pool |-> { Num(10 * Scale), Null }],
      [name |-> labelName, dtype |-> "object", pool |-> { Str(<<"x">>) }] }

chartColumn(name) == CHOOSE c \in ChartColumns : c.name = name

ChartHeaderLists ==
    { <<siteName, nName>>, <<yearName, nName>>, <<siteName, mName>>,
      <<siteName, labelName>>, <<nName>>, <<siteName>> }

RECURSIVE chartTablesOf(_)
chartTablesOf(hs) ==
    IF hs = <<>> THEN { <<>> }
    ELSE LET c == chartColumn(Head(hs)) IN
         { <<[name |-> c.name, dtype |-> c.dtype, vals |-> vals]>> \o rest :
             vals \in [1..ChartRows -> c.pool], rest \in chartTablesOf(Tail(hs)) }

ChartTables == UNION { chartTablesOf(hs) : hs \in ChartHeaderLists }

InitChart ==
    /\ pc = "start"
    /\ df \in ChartTables
    /\ request = Idle /\ fig = Idle
    /\ cols = Idle /\ normalized = Idle /\ renormalized = Idle
    /\ col = Idle /\ coerced = Idle
    /\ series = Idle /\ parsed = Idle
    /\ staged = Idle /\ cleaned = Idle
    /\ table = Idle /\ cats = Idle
    /\ boolLike = Idle /\ filtered = Idle
    /\ appIdle

BuildBar ==
    /\ pc = "start"
    /\ \E x_col \in { None, siteName, yearName, nName, dateName },
          y_col \in { None, nName, mName, labelName } :
          /\ request' = [x_col |-> x_col, y_col |-> y_col, trendline |-> FALSE]
          /\ fig' = build_bar(df, x_col, y_col)
    /\ pc' = "bar"
    /\ UNCHANGED <<cols, normalized, renormalized, col, coerced, series, parsed,
                   df, staged, cleaned, table, cats, boolLike, filtered,
                   appVars>>

BuildScatter ==
    /\ pc = "start"
    /\ \E x_col \in { None, siteName, yearName, nName, dateName },
          y_col \in { None, nName, labelName },
          trendline \in BOOLEAN, trendOk \in BOOLEAN :
          /\ request' = [x_col |-> x_col, y_col |-> y_col, trendline |-> trendline]
          /\ fig' = build_scatter(df, x_col, y_col, None, trendline, trendOk)
    /\ pc' = "scatter"
    /\ UNCHANGED <<cols, normalized, renormalized, col, coerced, series, parsed,
                   df, staged, cleaned, table, cats, boolLike, filtered,
                   appVars>>

NextChart == BuildBar \/ BuildScatter

SpecChart == InitChart /\ [][NextChart]_vars

----------------------------------------------------------------------------
(* Properties of the chart builders *)

barX == column(df, request.x_col)

\* a numeric Y column is given
yGiven == hasColumn(df, request.y_col) /\ is_numeric_dtype(column(df, request.y_col))

RECURSIVE sumHeights(_)
sumHeights(bars) ==
    IF bars = {} THEN 0
    ELSE LET b == CHOOSE x \in bars : TRUE IN b.y.v + sumHeights(bars \ {b})

\* h is the arithmetic mean of the non-null values of the rows
exactMean(h, vals, rows) ==
    LET present == { r \in rows : vals[r].t = "num" }
    IN  IF present = {} THEN isna(h)
        ELSE h.t = "num" /\ h.v * Cardinality(present) = sumOf(vals, present)

\* h is a number of DECIMALS places nearest to that mean
roundedMean(h, vals, rows) ==
    LET present == { r \in rows : vals[r].t = "num" }
        d == h.v * Cardinality(present) - sumOf(vals, present)
    IN  IF present = {} THEN isna(h)
        ELSE /\ h.t = "num"
             /\ h.v % 10 = 0
             /\ 2 * (IF d < 0 THEN -d ELSE d) <= 10 * Cardinality(present)

\* C19: build_bar yields one bar per distinct X value, of height the
\* arithmetic mean of Y over the rows with that X value when a numeric Y is
\* given, and the count of those rows, summing to the number of rows, when Y
\* is not given.
C19_MeanPerValue ==
    (pc = "bar" /\ hasColumn(df, request.x_col)) =>
        LET xs == Range(barX.vals)
            rowsOfValue(v) == { r \in DOMAIN barX.vals : barX.vals[r] = v }
        IN  /\ fig.kind = "bar"
            /\ Cardinality(fig.bars) = Cardinality(xs)
            /\ yGiven =>
                 \A v \in xs : \E b \in fig.bars :
                     exactMean(b.y, column(df, request.y_col).vals, rowsOfValue(v))
            /\ request.y_col = None =>
                 /\ \A v \in xs : \E b \in fig.bars :
                       b.y = Num(Cardinality(rowsOfValue(v)) * Scale)
                 /\ sumHeights(fig.bars) = nrows(df) * Scale

\* the X column is numeric, has no null and has a value in 1800..2100
yearLikeX ==
    /\ is_numeric_dtype(barX)
    /\ \A r \in DOMAIN barX.vals : barX.vals[r].t = "num"
    /\ \E r \in DOMAIN barX.vals : between(barX.vals[r], 1800, 2100)

\* the label of a row on the X axis
labelOfRow(r) ==
    IF yearLikeX THEN intText(roundWhole(barX.vals[r].v))
    ELSE cell_astype_str(barX.dtype, barX.vals[r])

\* What build_bar does yield with the X column present: one bar per distinct
\* X label (the text of the X value, a year-like numeric X rounded to whole
\* numbers first).  With a numeric Y column other than X the height is the
\* mean of the non-null Y of the rows with that label rounded to 3 decimals;
\* otherwise it is the count of those rows, and the counts sum to the number
\* of rows.
BarPerLabel ==
    (pc = "bar" /\ hasColumn(df, request.x_col)) =>
        LET labels == { labelOfRow(r) : r \in DOMAIN barX.vals }
            rowsOfLabel(x) == { r \in DOMAIN barX.vals : labelOfRow(r) = x }
            meanMode == request.y_col # request.x_col /\ yGiven
        IN  /\ fig.kind = "bar"
            /\ { b.x : b \in fig.bars } = labels
            /\ Cardinality(fig.bars) = Cardinality(labels)
            /\ \A b \in fig.bars :
                  IF meanMode
                  THEN roundedMean(b.y, column(df, request.y_col).vals, rowsOfLabel(b.x))
                  ELSE b.y = Num(Cardinality(rowsOfLabel(b.x)) * Scale)
            /\ ~meanMode => sumHeights(fig.bars) = nrows(df) * Scale

\* C20: build_scatter returns the empty figure unless the X column and the
\* Y column are both present in the table and numeric.
C20_EmptyUnlessNumeric ==
    (/\ pc = "scatter"
     /\ ~(/\ hasColumn(df, request.x_col) /\ is_numeric_dtype(column(df, request.x_col))
          /\ hasColumn(df, request.y_col) /\ is_numeric_dtype(column(df, request.y_col)))) =>
        fig = EmptyFigure

----------------------------------------------------------------------------
(* Properties of the cleaned table *)

\* the empty tokens as a text cell may spell them, once trimmed
TrimmedEmptyTokens ==
    { <<>>, <<"-">>, <<"N","A">>, <<"N","/","A">>, <<"n","a","n">>, <<"N","a","N">> }

\* a cell that counts as null: a null, or a text that trims to an empty token
countsAsNull(c) == isna(c) \/ (c.t = "str" /\ strip(c.v, {" "}) \in TrimmedEmptyTokens)

\* C26: the table preprocess_dataframe returns has no row and no column whose
\* cells all count as null (a text that trims to an empty token counts as
\* null), and it keeps every row of the table of step 6 that has a cell that
\* does not count as null.
C26_NoEmptyRowOrColumn ==
    returned =>
        /\ \A r \in 1..nrows(cleaned.df) :
              \E i \in DOMAIN cleaned.df : ~countsAsNull(cleaned.df[i].vals[r])
        /\ \A i \in DOMAIN cleaned.df :
              \E r \in DOMAIN cleaned.df[i].vals : ~countsAsNull(cleaned.df[i].vals[r])
        /\ nrows(cleaned.df) =
              Cardinality({ r \in 1..nrows(staged) :
                              \E i \in DOMAIN staged : ~countsAsNull(staged[i].vals[r]) })

\* C26 witness: a table with a row of empty tokens and nulls and a column of
\* empty tokens has been cleaned: the row and the column are gone, another
\* row and another column are kept.
C26_Witness ==
    /\ returned
    /\ \E r \in 1..nrows(staged) : \A i \in DOMAIN staged : countsAsNull(staged[i].vals[r])
    /\ \E i \in DOMAIN staged :
          /\ \A r \in DOMAIN staged[i].vals : countsAsNull(staged[i].vals[r])
          /\ \E r \in DOMAIN staged[i].vals : staged[i].vals[r].t = "str"
    /\ nrows(cleaned.df) = 1
    /\ Len(cleaned.df) = Len(staged) - 1

\* step 5 takes its second branch on the typed form of t: no named pair, a
\* KKJ pair
kkjPairUsed(t) ==
    LET found == find_lat_lon(typed(t))
        k == has_kkj_xy(typed(t))
    IN  /\ ~(found.lat # None /\ found.lon # None)
        /\ k.kx # None /\ k.ky # None

\* the reprojection of the KKJ pair raised: the staged table is the one the
\* except branch of _kkj_to_wgs84 gives, and not the one a transform gives
reprojectionFailed ==
    /\ pc = "cleaned"
    /\ kkjPairUsed(df)
    /\ staged = stageCoordinates(df, FALSE)
    /\ staged # stageCoordinates(df, TRUE)

\* C27 as stated: when a KKJ pair is found and its reprojection fails,
\* preprocess_dataframe does not raise and the table it returns has a
\* latitude and a longitude column, null in every row.
C27_FailedReprojectionKeepsNullPair ==
    reprojectionFailed =>
        /\ ~cleaned.raised
        /\ \A name \in {latitudeName, longitudeName} :
              /\ hasColumn(cleaned.df, name)
              /\ \A i \in DOMAIN cleaned.df :
                    cleaned.df[i].name = name
                        => \A r \in DOMAIN cleaned.df[i].vals : isna(cleaned.df[i].vals[r])

\* C28 as stated: a column of the input that holds a value that is not null
\* and not an empty token is, under its normalized name, a column of the
\* returned table.
C28_ValuedColumnsKept ==
    returned =>
        \A i \in DOMAIN df :
            (\E r \in DOMAIN df[i].vals : ~countsAsNull(df[i].vals[r]))
                => hasColumn(cleaned.df, staged[i].name)

----------------------------------------------------------------------------
(* Name rules before content *)

\* the column has a non-null value and its non-null values are all 0 or 1
allZeroOne(c) ==
    /\ dropna(c.vals) # <<>>
    /\ \A i \in DOMAIN c.vals : isna(c.vals[i]) \/ c.vals[i] \in { Num(0), Num(Scale) }

\* C29: categorize_columns looks at the content of a column only when its
\* name matches no name rule: a column listed under Boolean-like matches no
\* name rule, a column of 0/1 values whose name matches a name rule is listed
\* under a name-rule category, and a column listed under Numeric, Text or
\* Other matches no name rule and is not boolean-like.
C29_ContentOnlyWhenNoNameRule ==
    pc = "categorized" =>
        \A i \in DOMAIN table :
            LET m == matchingCategories(table[i].name)
                category == categoryOf(table[i].name)
            IN  /\ categoriesHolding(table[i].name) # {}
                /\ category = "Boolean-like" => (m = {} /\ is_boolean_like(table[i]))
                /\ (m # {} /\ allZeroOne(table[i]))
                      => \E k \in m : category = RuleOrder[k]
                /\ category \in { "Numeric", "Text", "Other" }
                      => (m = {} /\ ~is_boolean_like(table[i]))

\* C29 witness: a county column of 0/1 values and a flag column of 0/1 values
\* have been classified: county under Region or area, flag under Boolean-like.
C29_Witness ==
    /\ pc = "categorized"
    /\ \E i, j \in DOMAIN table :
          /\ table[i].name = <<"c","o","u","n","t","y">>
          /\ allZeroOne(table[i]) /\ is_boolean_like(table[i])
          /\ categoryOf(table[i].name) = "Region or area"
          /\ table[j].name = <<"f","l","a","g">>
          /\ allZeroOne(table[j])
          /\ categoryOf(table[j].name) = "Boolean-like"

----------------------------------------------------------------------------
(* The callbacks: upload, preselection, active columns, filtered table *)

MAX_PER_CAT == 4
MAX_KEEP == 30

CATEGORY_ORDER ==
    << "Coordinates", "Time", "Boolean-like", "Region or area", "Species", "Site type",
       "Counts", "Lengths", "Numeric", "Text", "Other" >>

\* a store that holds None
NullData == [null |-> TRUE, df |-> <<>>]
NullMeta == [null |-> TRUE, cats |-> <<>>]

\* the upload component without contents
NoContents == [given |-> FALSE, readable |-> FALSE, df |-> <<>>]

\* a failure that keeps the category map of the raw table
handle_upload_keepsMeta(contents, transformOk, dupAssignOk) ==
    IF ~contents.given THEN [data |-> NullData, meta |-> NullMeta]
    ELSE IF ~contents.readable THEN [data |-> NullData, meta |-> NullMeta]
    ELSE LET processed == preprocess_dataframe(contents.df, transformOk, dupAssignOk) IN
         IF processed.raised
         THEN [data |-> NullData,
               meta |-> [null |-> FALSE, cats |-> categorize_columns(contents.df)]]
         ELSE [data |-> [null |-> FALSE, df |-> processed.df],
               meta |-> [null |-> FALSE, cats |-> categorize_columns(processed.df)]]

\* contents.readable = FALSE: _read_uploaded raises (bad base64, a file the
\* reader cannot parse, a JSON shape load_json_or_geojson rejects)
handle_upload(contents, transformOk, dupAssignOk) ==
    IF ~contents.given THEN [data |-> NullData, meta |-> NullMeta]
    ELSE IF ~contents.readable THEN [data |-> NullData, meta |-> NullMeta]
    ELSE LET processed == preprocess_dataframe(contents.df, transformOk, dupAssignOk) IN
         IF processed.raised THEN [data |-> NullData, meta |-> NullMeta]
         ELSE [data |-> [null |-> FALSE, df |-> processed.df],
               meta |-> [null |-> FALSE, cats |-> categorize_columns(processed.df)]]

\* the list with its repeated entries removed, first occurrences kept
RECURSIVE unique(_, _)
unique(cs, out) ==
    IF cs = <<>> THEN out
    ELSE unique(Tail(cs), IF Head(cs) \in Range(out) THEN out ELSE Append(out, Head(cs)))

RECURSIVE concat(_)
concat(lists) == IF lists = <<>> THEN <<>> ELSE Head(lists) \o concat(Tail(lists))

\* meta.values()
meta_values(meta) == [k \in DOMAIN meta |-> meta[k].columns]

flatten_unique(meta) == unique(concat(meta_values(meta)), <<>>)

\* meta.get(cat, [])
meta_get(meta, cat) ==
    IF \E k \in DOMAIN meta : meta[k].category = cat
    THEN meta[CHOOSE k \in DOMAIN meta : meta[k].category = cat].columns
    ELSE <<>>

\* cs[:n]
slice(cs, n) == SubSeq(cs, 1, min2(n, Len(cs)))

\* an inner loop without the test of the cap
RECURSIVE pickFromUncapped(_, _)
pickFromUncapped(cs, picked) ==
    IF cs = <<>> THEN picked
    ELSE pickFromUncapped(Tail(cs),
             IF Head(cs) \in Range(picked) THEN picked ELSE Append(picked, Head(cs)))

\* the inner loop of steps 2 and 3: append the unseen columns of one list,
\* break once MAX_KEEP columns are picked
RECURSIVE pickFrom(_, _)
pickFrom(cs, picked) ==
    IF cs = <<>> THEN picked
    ELSE LET p == IF Head(cs) \in Range(picked) THEN picked ELSE Append(picked, Head(cs))
         IN  IF Len(p) >= MAX_KEEP THEN p ELSE pickFrom(Tail(cs), p)

\* the outer loop of steps 2 and 3, with its own break
RECURSIVE pickLists(_, _)
pickLists(lists, picked) ==
    IF lists = <<>> THEN picked
    ELSE LET p == pickFrom(Head(lists), picked)
         IN  IF Len(p) >= MAX_KEEP THEN p ELSE pickLists(Tail(lists), p)

\* a step 1 that does not look at the table
coords_firstAlways(t) == <<latitudeName, longitudeName>>

\* step 1: latitude and longitude when both are columns of the table
coords_first(t) ==
    IF hasColumn(t, latitudeName) /\ hasColumn(t, longitudeName)
    THEN <<latitudeName, longitudeName>>
    ELSE <<>>

\* a step 2 that takes every column of a category
by_priorityWholeCategory(meta, picked) ==
    pickLists([i \in DOMAIN CATEGORY_ORDER |-> meta_get(meta, CATEGORY_ORDER[i])], picked)

\* step 2: up to MAX_PER_CAT columns per category, by priority
by_priority(meta, picked) ==
    pickLists([i \in DOMAIN CATEGORY_ORDER |->
                  slice(meta_get(meta, CATEGORY_ORDER[i]), MAX_PER_CAT)],
              picked)

\* step 3: fill the remaining slots
fill_remaining(meta, picked) ==
    IF Len(picked) < MAX_KEEP THEN pickLists(meta_values(meta), picked) ELSE picked

\* the options are the option values; `not meta` holds for None and for {}
init_keep_cols(meta, data_json) ==
    IF meta.null \/ meta.cats = <<>> \/ data_json.null
    THEN [options |-> <<>>, value |-> <<>>]
    ELSE [options |-> flatten_unique(meta.cats),
          value |-> fill_remaining(meta.cats,
                        by_priority(meta.cats, coords_first(data_json.df)))]

\* a sync without the cap
update_active_cols_all(selected) == selected

\* selected is None or a list (None and [] both give [])
update_active_cols(selected) == slice(selected, MAX_KEEP)

\* [raised, data]: raised when apply_year_filter raises, and the store then
\* keeps what it held; each step is bound to the table the step before it
\* returned
build_filtered(data_json, active_cols, filter_col, filter_val, time_col, years) ==
    IF data_json.null \/ active_cols = <<>>
    THEN [raised |-> FALSE, data |-> NullData]
    ELSE CHOOSE result \in
            { IF out.raised THEN [raised |-> TRUE, data |-> NullData]
              ELSE [raised |-> FALSE, data |-> [null |-> FALSE, df |-> out.df]] :
                out \in { apply_year_filter(valued, time_col, years) :
                    valued \in { apply_value_filter(subset, filter_col, filter_val,
                                                    Str(ALL_SENTINEL)) :
                        subset \in { subset_to_active(data_json.df, active_cols,
                                                      <<time_col, filter_col>>) } } } } : TRUE

----------------------------------------------------------------------------
(* The callback chain: SpecApp *)

alkupvmName == <<"a","l","k","u","p","v","m">>

\* what the user may drop on the upload component: nothing, a file the
\* reader rejects, and four tables
UploadContents ==
    { NoContents,
      [given |-> TRUE, readable |-> FALSE, df |-> <<>>],
      [given |-> TRUE, readable |-> TRUE,
       df |-> << [name |-> <<"s","i","t","e">>, dtype |-> "object",
                  vals |-> <<Str(<<"a">>), Str(<<"b">>)>>],
                 [name |-> <<"n">>, dtype |-> "object",
                  vals |-> <<Str(<<"1",",","2","3","4","5">>), Str(<<"-">>)>>] >>],
      [given |-> TRUE, readable |-> TRUE,
       df |-> << [name |-> latitudeName, dtype |-> "float64",
                  vals |-> <<Num(615000), Num(950000)>>],
                 [name |-> longitudeName, dtype |-> "float64",
                  vals |-> <<Num(250000), Num(250000)>>],
                 [name |-> alkupvmName, dtype |-> "object",
                  vals |-> <<Str(<<"2","0","2","0","-","0","1","-","3","1">>),
                             Str(<<"2","0","2","0","-","0","1","-","3","1">>)>>] >>],
      [given |-> TRUE, readable |-> TRUE,
       df |-> << [name |-> <<"K","K","J","x">>, dtype |-> "float64",
                  vals |-> <<Num(338500), Num(338500)>>],
                 [name |-> <<"k","k","j","y">>, dtype |-> "object",
                  vals |-> <<Str(<<"6","6",".","7","2">>), Str(<<"6","6",".","7","2">>)>>],
                 [name |-> <<"D","a","t","e">>, dtype |-> "object",
                  vals |-> <<Str(<<"3","1",".","0","1",".","2","0","2","0">>),
                             Str(<<"2","0","2","0","-","0","1","-","3","1">>)>>] >>],
      [given |-> TRUE, readable |-> TRUE,
       df |-> << [name |-> latitudeName, dtype |-> "float64",
                  vals |-> <<Num(615000), Num(615000)>>],
                 [name |-> <<"K","K","J","x">>, dtype |-> "float64",
                  vals |-> <<Num(338500), Num(338500)>>],
                 [name |-> <<"k","k","j","y">>, dtype |-> "object",
                  vals |-> <<Str(<<"6","6",".","7","2">>), Str(<<"6","6",".","7","2">>)>>] >>] }

\* what handle_upload may return for them, whether or not the transform and
\* the assignment to a duplicated label raise
UploadOutcomes ==
    { handle_upload(contents, transformOk, dupAssignOk) :
        contents \in UploadContents, transformOk \in BOOLEAN, dupAssignOk \in BOOLEAN }

\* the lists the user may leave in the multi-select: nothing, one option,
\* every option, and the last MAX_KEEP or MAX_KEEP + 1 options
Selections(options) ==
    { SubSeq(options, Len(options) - k + 1, Len(options)) :
        k \in { 0, 1, MAX_KEEP, MAX_KEEP + 1, Len(options) } \cap 0..Len(options) }

\* pc names the callback or the user action that came last
\* the page as served: empty stores, no callback triggered
InitApp ==
    /\ pc = "serving"
    /\ DATA = NullData
    /\ META = NullMeta
    /\ KEEP_COLS = [options |-> <<>>, value |-> <<>>]
    /\ ACTIVE_COLS = <<>>
    /\ FILTERED_DATA = NullData
    /\ pending = {}
    /\ fc = Idle /\ loaded = Idle
    /\ cols = Idle /\ normalized = Idle /\ renormalized = Idle
    /\ col = Idle /\ coerced = Idle
    /\ series = Idle /\ parsed = Idle
    /\ df = Idle /\ staged = Idle /\ cleaned = Idle
    /\ table = Idle /\ cats = Idle
    /\ boolLike = Idle /\ request = Idle /\ filtered = Idle /\ fig = Idle

appRest ==
    <<fc, loaded, cols, normalized, renormalized, col, coerced, series, parsed, df, staged,
      cleaned, table, cats, boolLike, request, filtered, fig>>

\* the user uploads: handle_upload runs and writes DATA and META, which are
\* inputs of init_keep_cols and build_filtered
HandleUpload ==
    /\ \E out \in UploadOutcomes :
          /\ DATA' = out.data
          /\ META' = out.meta
    /\ pending' = pending \cup { "init_keep_cols", "build_filtered" }
    /\ pc' = "handle_upload"
    /\ UNCHANGED <<KEEP_COLS, ACTIVE_COLS, FILTERED_DATA, appRest>>

\* init_keep_cols runs and writes the options and the value of KEEP_COLS;
\* the value is the input of update_active_cols
InitKeepCols ==
    /\ "init_keep_cols" \in pending
    /\ KEEP_COLS' = init_keep_cols(META, DATA)
    /\ pending' = (pending \ { "init_keep_cols" }) \cup { "update_active_cols" }
    /\ pc' = "init_keep_cols"
    /\ UNCHANGED <<DATA, META, ACTIVE_COLS, FILTERED_DATA, appRest>>

\* the user changes the selection among the options on offer
SelectColumns ==
    /\ \E selected \in Selections(KEEP_COLS.options) :
          /\ selected # KEEP_COLS.value
          /\ KEEP_COLS' = [KEEP_COLS EXCEPT !.value = selected]
    /\ pending' = pending \cup { "update_active_cols" }
    /\ pc' = "select"
    /\ UNCHANGED <<DATA, META, ACTIVE_COLS, FILTERED_DATA, appRest>>

\* update_active_cols runs and writes ACTIVE_COLS, an input of build_filtered
UpdateActiveCols ==
    /\ "update_active_cols" \in pending
    /\ ACTIVE_COLS' = update_active_cols(KEEP_COLS.value)
    /\ pending' = (pending \ { "update_active_cols" }) \cup { "build_filtered" }
    /\ pc' = "update_active_cols"
    /\ UNCHANGED <<DATA, META, KEEP_COLS, FILTERED_DATA, appRest>>

\* build_filtered runs with the menus as they stand: a filter column among
\* the active ones or none, its value the sentinel that fill_filter_values
\* preselects, the time menus empty
BuildFiltered ==
    /\ "build_filtered" \in pending
    /\ \E filter_col \in { None } \cup Range(ACTIVE_COLS),
          filter_val \in { Str(ALL_SENTINEL) },
          time_col \in { None },
          years \in { <<>> } :
          LET out == build_filtered(DATA, ACTIVE_COLS, filter_col, filter_val, time_col, years)
          IN  FILTERED_DATA' = IF out.raised THEN FILTERED_DATA ELSE out.data
    /\ pending' = pending \ { "build_filtered" }
    /\ pc' = "build_filtered"
    /\ UNCHANGED <<DATA, META, KEEP_COLS, ACTIVE_COLS, appRest>>

NextApp ==
    \/ HandleUpload
    \/ InitKeepCols
    \/ SelectColumns
    \/ UpdateActiveCols
    \/ BuildFiltered

SpecApp == InitApp /\ [][NextApp]_vars

\* no callback is waiting to run
quiescent == pending = {}

----------------------------------------------------------------------------
(* Preselection on its own: SpecKeep *)

MaxCatSize == 5

\* a header filed under the category by its name, or by its content for the
\* categories without a name rule
KeepPrefix ==
    [cat \in Range(ALL_CATEGORIES) |->
        CASE cat = "Time" -> <<"d","a","t","e">>
          [] cat = "Coordinates" -> <<"x","_">>
          [] cat = "Boolean-like" -> <<"f","l","a","g">>
          [] cat = "Region or area" -> <<"a","r","e","a">>
          [] cat = "Species" -> <<"s","p","e","c","i","e","s">>
          [] cat = "Site type" -> <<"s","o","i","l">>
          [] cat = "Counts" -> <<"c","o","u","n","t">>
          [] cat = "Lengths" -> <<"h","e","i","g","h","t">>
          [] cat = "Numeric" -> <<"n","u","m">>
          [] cat = "Text" -> <<"t","e","x","t">>
          [] OTHER -> <<"o","t","h","e","r">>]

\* the columns of one category: withPair puts latitude second and longitude
\* last among the coordinates
keepColumns(cat, size, withPair) ==
    [j \in 1..size |->
        IF cat = "Coordinates" /\ withPair /\ j = 2 THEN latitudeName
        ELSE IF cat = "Coordinates" /\ withPair /\ j = size THEN longitudeName
        ELSE KeepPrefix[cat] \o natText(j)]

\* the category map of a table whose categories in `full` hold MaxCatSize
\* columns each, in the order categorize_columns returns them
keepMeta(full, withPair) ==
    selectSeq([i \in DOMAIN ALL_CATEGORIES |->
                  [category |-> ALL_CATEGORIES[i],
                   columns |-> keepColumns(ALL_CATEGORIES[i], MaxCatSize, withPair)]],
              { i \in DOMAIN ALL_CATEGORIES : ALL_CATEGORIES[i] \in full })

\* a table with the columns of the category map, one row
keepTable(meta) ==
    LET names == concat(meta_values(meta))
    IN  [i \in DOMAIN names |->
            [name |-> names[i], dtype |-> "string", vals |-> <<Str(<<"a">>)>>]]

\* the stores after an upload, init_keep_cols triggered
InitKeep ==
    /\ pc = "handle_upload"
    /\ \E full \in SUBSET Range(ALL_CATEGORIES), withPair \in BOOLEAN :
          /\ withPair => "Coordinates" \in full
          /\ META = [null |-> FALSE, cats |-> keepMeta(full, withPair)]
          /\ DATA = [null |-> FALSE, df |-> keepTable(keepMeta(full, withPair))]
    /\ KEEP_COLS = [options |-> <<>>, value |-> <<>>]
    /\ ACTIVE_COLS = <<>>
    /\ FILTERED_DATA = NullData
    /\ pending = { "init_keep_cols", "build_filtered" }
    /\ fc = Idle /\ loaded = Idle
    /\ cols = Idle /\ normalized = Idle /\ renormalized = Idle
    /\ col = Idle /\ coerced = Idle
    /\ series = Idle /\ parsed = Idle
    /\ df = Idle /\ staged = Idle /\ cleaned = Idle
    /\ table = Idle /\ cats = Idle
    /\ boolLike = Idle /\ request = Idle /\ filtered = Idle /\ fig = Idle

NextKeep ==
    \/ InitKeepCols
    \/ SelectColumns
    \/ UpdateActiveCols

SpecKeep == InitKeep /\ [][NextKeep]_vars

----------------------------------------------------------------------------
(* Properties of the callbacks *)

\* whatever it is given, handle_upload returns a table and its category map
\* or None for both, and None for both exactly when there is nothing to
\* read, the reader raises or preprocess_dataframe raises
uploadReturnsBothOrNeither ==
    \A contents \in UploadContents, transformOk \in BOOLEAN, dupAssignOk \in BOOLEAN :
        LET out == handle_upload(contents, transformOk, dupAssignOk)
            failed == \/ ~contents.given
                      \/ ~contents.readable
                      \/ preprocess_dataframe(contents.df, transformOk, dupAssignOk).raised
        IN  /\ out.data.null <=> out.meta.null
            /\ failed <=> out.data.null
            /\ out.data.null => (out.data = NullData /\ out.meta = NullMeta)
            /\ ~out.data.null => out.meta.cats = categorize_columns(out.data.df)

\* C22: handle_upload stores the cleaned table together with its category
\* map, or None in both stores when there is no content or a step raises;
\* after any sequence of uploads DATA is None exactly when META is None, and
\* the two stores hold what one call of handle_upload returned.
C22_BothOrNeither ==
    /\ uploadReturnsBothOrNeither
    /\ DATA.null <=> META.null
    /\ [data |-> DATA, meta |-> META] \in
          UploadOutcomes \cup { [data |-> NullData, meta |-> NullMeta] }

\* C22 witness: an upload has failed after one that succeeded: both stores
\* hold None while the selection of the earlier table is still on display.
C22_Witness ==
    /\ pc = "handle_upload"
    /\ DATA.null /\ META.null
    /\ KEEP_COLS.value # <<>>

\* the column names of the table in the DATA store
dataColumns == IF DATA.null THEN {} ELSE Range(columnNames(DATA.df))

\* C23 as stated: in every state of the chain every active column is a
\* column of the table in the DATA store.
C23_ActiveWithinData == Range(ACTIVE_COLS) \subseteq dataColumns

\* C23, amended: once every triggered callback has run, every active column
\* is a column of the table in the DATA store.
C23_ActiveWithinDataWhenSettled == quiescent => Range(ACTIVE_COLS) \subseteq dataColumns

\* C23 witness: the chain has settled on a table after a selection by the
\* user, with active columns and a filtered table.
C23_Witness ==
    /\ quiescent
    /\ ~DATA.null
    /\ ACTIVE_COLS # <<>>
    /\ ACTIVE_COLS # init_keep_cols(META, DATA).value
    /\ ~FILTERED_DATA.null

\* C24: the list init_keep_cols preselects holds no column twice and at most
\* MAX_KEEP columns, and the list update_active_cols stores holds at most
\* MAX_KEEP columns.
C24_Capped ==
    /\ pc = "init_keep_cols" =>
          (Distinct(KEEP_COLS.value) /\ Len(KEEP_COLS.value) <= MAX_KEEP)
    /\ Len(ACTIVE_COLS) <= MAX_KEEP

\* C24 witness: of more than MAX_KEEP columns on offer the user has selected
\* MAX_KEEP + 1, and update_active_cols has stored MAX_KEEP of them.
C24_Witness ==
    /\ pc = "update_active_cols"
    /\ Len(KEEP_COLS.options) > MAX_KEEP
    /\ Len(KEEP_COLS.value) = MAX_KEEP + 1
    /\ Len(ACTIVE_COLS) = MAX_KEEP

\* the candidates of the preselection in the order they are looked at
candidates(meta, t) ==
    (IF hasColumn(t, latitudeName) /\ hasColumn(t, longitudeName)
     THEN <<latitudeName, longitudeName>> ELSE <<>>)
    \o concat([i \in DOMAIN CATEGORY_ORDER |->
                  LET cs == meta_get(meta, CATEGORY_ORDER[i])
                  IN  [j \in 1..min2(MAX_PER_CAT, Len(cs)) |-> cs[j]]])
    \o concat(meta_values(meta))

\* the first occurrences of the candidates
firstOccurrences(cs) ==
    selectSeq(cs, { i \in DOMAIN cs : \A j \in 1..(i - 1) : cs[j] # cs[i] })

\* C25: the list init_keep_cols preselects is the first MAX_KEEP of: latitude
\* and longitude when both are columns, then the first MAX_PER_CAT columns
\* of each category in CATEGORY_ORDER, then every column in the order of the
\* category map, each column at its first occurrence; when the category map
\* holds at most MAX_KEEP columns all of them are preselected.
C25_PreselectionOrder ==
    (pc = "init_keep_cols" /\ ~META.null /\ META.cats # <<>> /\ ~DATA.null) =>
        LET wanted == firstOccurrences(candidates(META.cats, DATA.df))
        IN  /\ KEEP_COLS.value = [i \in 1..min2(MAX_KEEP, Len(wanted)) |-> wanted[i]]
            /\ KEEP_COLS.options = flatten_unique(META.cats)
            /\ Len(KEEP_COLS.options) <= MAX_KEEP
                  => Range(KEEP_COLS.value) = Range(KEEP_COLS.options)

\* C25 witness: a preselection that starts with latitude and longitude, took
\* its share of several categories, filled up from the category map and
\* stopped at MAX_KEEP with columns left over.
C25_Witness ==
    /\ pc = "init_keep_cols"
    /\ Len(KEEP_COLS.options) > MAX_KEEP
    /\ Len(KEEP_COLS.value) = MAX_KEEP
    /\ KEEP_COLS.value[1] = latitudeName /\ KEEP_COLS.value[2] = longitudeName
    /\ Len(by_priority(META.cats, coords_first(DATA.df))) < MAX_KEEP

\* C30 as stated: a column of the cleaned table that the Preprocessor took
\* for a date candidate and parsed to datetime is listed under Time.
C30_DatetimeColumnsAreTime ==
    ~DATA.null =>
        \A i \in DOMAIN DATA.df :
            (is_likely_date(DATA.df[i].name) /\ DATA.df[i].dtype = "datetime64")
                => DATA.df[i].name \in Range(meta_get(META.cats, "Time"))

----------------------------------------------------------------------------
(* The GeoJSON loader *)

\* JSON values: the cells Null, Num, Str, Bool, Inf, and
JList(items) == [t |-> "list", v |-> items]
NaN == [t |-> "nan", v |-> 0]

\* isinstance(x, (int, float)): a bool is an int
is_number(x) == x.t \in { "num", "bool", "nan", "inf" }

\* float(x) of a number: True is 1.0
to_float(x) == IF x.t = "bool" THEN Num(IF x.v THEN Scale ELSE 0) ELSE x

\* lo <= x <= hi for whole lo, hi: no comparison with nan holds
in_range(x, lo, hi) ==
    /\ to_float(x).t = "num"
    /\ lo * Scale <= to_float(x).v
    /\ to_float(x).v <= hi * Scale

NonePair == [lon |-> Null, lat |-> Null]

\* a validation that only tests the types
validateTypesOnly(lon, lat) ==
    IF ~is_number(lon) \/ ~is_number(lat) THEN NonePair
    ELSE [lon |-> lon, lat |-> lat]

validate(lon, lat) ==
    IF ~is_number(lon) \/ ~is_number(lat) THEN NonePair
    ELSE IF in_range(lon, -180, 180) /\ in_range(lat, -90, 90) THEN [lon |-> lon, lat |-> lat]
    ELSE NonePair

\* walk of _flatten_coordinates: the points under obj, in order
RECURSIVE walk(_)
walk(obj) ==
    IF obj.t # "list" THEN <<>>
    ELSE IF obj.v # <<>> /\ obj.v[1].t = "list"
    THEN concat([i \in DOMAIN obj.v |-> walk(obj.v[i])])
    ELSE IF Len(obj.v) >= 2
    THEN (IF is_number(obj.v[1]) /\ is_number(obj.v[2])
          THEN << <<to_float(obj.v[1]), to_float(obj.v[2])>> >>
          ELSE <<>>)
    ELSE <<>>

flatten_coordinates(coords) == walk(coords)

\* x + y of two floats
plus(x, y) ==
    IF x.t = "nan" \/ y.t = "nan" THEN NaN
    ELSE IF x.t = "inf" \/ y.t = "inf" THEN Inf
    ELSE Num(x.v + y.v)

\* sum(p[k] for p in points) / len(points)
RECURSIVE sum_of(_, _)
sum_of(points, k) ==
    IF points = <<>> THEN Num(0) ELSE plus(Head(points)[k], sum_of(Tail(points), k))

mean_of(points, k) ==
    LET total == sum_of(points, k)
    IN  IF total.t = "num" THEN Num(total.v \div Len(points)) ELSE total

\* geom is a dict [t |-> "dict", type, coordinates] (a missing key is Null)
\* or some other JSON value
get_lonlat(geom) ==
    IF geom.t # "dict" THEN NonePair
    ELSE IF /\ geom.type = Str(<<"P","o","i","n","t">>)
            /\ geom.coordinates.t = "list"
            /\ Len(geom.coordinates.v) >= 2
    THEN validate(geom.coordinates.v[1], geom.coordinates.v[2])
    ELSE LET points == flatten_coordinates(geom.coordinates) IN
         IF points = <<>> THEN NonePair
         ELSE validate(mean_of(points, 1), mean_of(points, 2))

\* the loop over the features: [raised, rows]; dict(props) raises when the
\* properties of a feature with usable coordinates are null
RECURSIVE collect_rows(_, _)
collect_rows(features, rows) ==
    IF features = <<>> THEN [raised |-> FALSE, rows |-> rows]
    ELSE LET feat == Head(features)
             at == get_lonlat(feat.geometry)
         IN  IF ~feat.isDict THEN collect_rows(Tail(features), rows)
             ELSE IF at.lon = Null \/ at.lat = Null THEN collect_rows(Tail(features), rows)
             ELSE IF feat.properties.kind # "dict" THEN [raised |-> TRUE, rows |-> <<>>]
             ELSE collect_rows(Tail(features),
                      Append(rows, [keys |-> feat.properties.keys \cup { "longitude", "latitude" },
                                    longitude |-> at.lon,
                                    latitude |-> at.lat]))

\* the rows of the table; without rows the table has the columns latitude
\* and longitude and no row
geojson_to_dataframe(features) == collect_rows(features, <<>>)

----------------------------------------------------------------------------
(* The loader on its own: SpecGeo *)

MaxFeatures == 2

PointType == Str(<<"P","o","i","n","t">>)
LineType == Str(<<"L","i","n","e","S","t","r","i","n","g">>)
PolygonType == Str(<<"P","o","l","y","g","o","n">>)

\* coordinate values: 25.5, 62.0, -95.0, 200.0, and values that are no
\* coordinates
GeoGood == { Num(255000), Num(620000) }
GeoAtoms == GeoGood \cup { Num(-950000), Num(2000000), Str(<<"x">>), Null, Bool(TRUE), NaN }

\* positions: pairs with at least one good value, short and long positions
GeoPositions ==
    { JList(<<a, b>>) : a \in GeoGood, b \in GeoAtoms }
    \cup { JList(<<a, b>>) : a \in GeoAtoms, b \in GeoGood }
    \cup { JList(<<>>), JList(<<Num(255000)>>),
           JList(<<Num(255000), Num(620000), Num(1000000)>>),
           JList(<<Num(2000000), Num(2000000)>>) }

\* the positions the lines and rings are made of
GeoVertices ==
    { JList(<<Num(255000), Num(620000)>>), JList(<<Num(2000000), Num(620000)>>),
      JList(<<Num(-950000), Num(-950000)>>), JList(<<NaN, Num(620000)>>),
      JList(<<Str(<<"x">>), Num(620000)>>) }

GeoLines == { JList(<<p, q>>) : p, q \in GeoVertices }

geometry(type, coordinates) == [t |-> "dict", type |-> type, coordinates |-> coordinates]

GeoGeometries ==
    { geometry(PointType, c) : c \in GeoPositions \cup { Null, JList(<<JList(<<Num(255000), Num(620000)>>)>>) } }
    \cup { geometry(LineType, c) : c \in GeoLines \cup { Null, JList(<<>>) } }
    \cup { geometry(PolygonType, JList(<<ring>>)) :
             ring \in { JList(<<p, p>>) : p \in GeoVertices } }
    \cup { geometry(Null, Null), geometry(Null, JList(<<Num(255000), Num(620000)>>)),
           [t |-> "null", type |-> Null, coordinates |-> Null],
           [t |-> "str", type |-> Null, coordinates |-> Null] }

nameProps == [kind |-> "dict", keys |-> { "name" }]

\* features with a name; a feature that is no dict; a Point at (25.5, 62.0)
\* with null properties, and one whose properties hold a longitude
GeoFeatures ==
    { [isDict |-> TRUE, properties |-> nameProps, geometry |-> g] : g \in GeoGeometries }
    \cup { [isDict |-> FALSE, properties |-> nameProps, geometry |-> geometry(Null, Null)],
           [isDict |-> TRUE, properties |-> [kind |-> "null", keys |-> {}],
            geometry |-> geometry(PointType, JList(<<Num(255000), Num(620000)>>))],
           [isDict |-> TRUE, properties |-> [kind |-> "dict", keys |-> { "name", "longitude" }],
            geometry |-> geometry(PointType, JList(<<Num(255000), Num(620000)>>))] }

InitGeo ==
    /\ pc = "start"
    /\ \E k \in 0..MaxFeatures : fc \in [1..k -> GeoFeatures]
    /\ loaded = Idle
    /\ storesIdle
    /\ cols = Idle /\ normalized = Idle /\ renormalized = Idle
    /\ col = Idle /\ coerced = Idle
    /\ series = Idle /\ parsed = Idle
    /\ df = Idle /\ staged = Idle /\ cleaned = Idle
    /\ table = Idle /\ cats = Idle
    /\ boolLike = Idle /\ request = Idle /\ filtered = Idle /\ fig = Idle

GeojsonToDataframe ==
    /\ pc = "start"
    /\ loaded' = geojson_to_dataframe(fc)
    /\ pc' = "loaded"
    /\ UNCHANGED <<cols, normalized, renormalized, col, coerced, series, parsed,
                   df, staged, cleaned, table, cats, boolLike, request, filtered, fig,
                   storeVars, fc>>

NextGeo == GeojsonToDataframe

SpecGeo == InitGeo /\ [][NextGeo]_vars

----------------------------------------------------------------------------
(* Properties of the loader *)

\* a number of at most `bound` degrees either way
withinDegrees(x, bound) ==
    /\ x.t \in { "num", "bool" }
    /\ LET v == IF x.t = "bool" THEN (IF x.v THEN Scale ELSE 0) ELSE x.v
       IN  -(bound * Scale) <= v /\ v <= bound * Scale

\* the feature is a Point with a longitude and a latitude of its own
ownCoordinates(feat) ==
    /\ feat.isDict /\ feat.geometry.t = "dict" /\ feat.geometry.type = PointType
    /\ feat.geometry.coordinates.t = "list"
    /\ Len(feat.geometry.coordinates.v) >= 2
    /\ withinDegrees(feat.geometry.coordinates.v[1], 180)
    /\ withinDegrees(feat.geometry.coordinates.v[2], 90)

\* the features that contribute a row, in order
contributing ==
    selectSeq(fc, { i \in DOMAIN fc : fc[i].isDict /\ get_lonlat(fc[i].geometry) # NonePair })

examplePoint ==
    [isDict |-> TRUE, properties |-> nameProps,
     geometry |-> geometry(PointType, JList(<<Num(255000), Num(620000)>>))]

\* C21: every row _geojson_to_dataframe returns has a longitude within
\* [-180, 180] and a latitude within [-90, 90], neither null; the rows are
\* those of the features whose coordinates resolve, in order, a Point with a
\* longitude and a latitude of its own has a row with exactly these, and a
\* collection of the one Point (25.5, 62.0) gives the one row (25.5, 62.0).
C21_RowsHaveValidCoordinates ==
    (pc = "loaded" /\ ~loaded.raised) =>
        /\ \A r \in DOMAIN loaded.rows :
              /\ withinDegrees(loaded.rows[r].longitude, 180)
              /\ withinDegrees(loaded.rows[r].latitude, 90)
              /\ { "longitude", "latitude" } \subseteq loaded.rows[r].keys
        /\ Len(loaded.rows) = Len(contributing)
        /\ \A i \in DOMAIN fc : ownCoordinates(fc[i]) =>
              \E r \in DOMAIN loaded.rows :
                  /\ contributing[r] = fc[i]
                  /\ loaded.rows[r].longitude = fc[i].geometry.coordinates.v[1]
                  /\ loaded.rows[r].latitude = fc[i].geometry.coordinates.v[2]
        /\ fc = <<examplePoint>> =>
              loaded.rows = << [keys |-> { "name", "longitude", "latitude" },
                                longitude |-> Num(255000), latitude |-> Num(620000)] >>

\* C21 witness: of two features, a Point at (25.5, 62.0) and a Point whose
\* longitude is 200, the loader has returned the one row of the first.
C21_Witness ==
    /\ pc = "loaded" /\ ~loaded.raised
    /\ Len(fc) = 2
    /\ fc[1] = [examplePoint EXCEPT
                  !.geometry.coordinates = JList(<<Num(2000000), Num(620000)>>)]
    /\ fc[2] = examplePoint
    /\ Len(loaded.rows) = 1
    /\ loaded.rows[1].longitude = Num(255000)

====
